---------------------------- MODULE Spec2Model ----------------------------
(***************************************************************************)
(* Reconciliation-and-scoring engine of the procurement dashboard:         *)
(*   dashboard/src/utils.py       registry loading and the provider index  *)
(*   dashboard/src/etl.py         the five cleaners, record_issue and      *)
(*                                etl_pipeline                             *)
(*   dashboard/src/risk_score.py  compute_risk_score and add_risk_scores   *)
(*                                                                         *)
(* Python text is a sequence of one-character strings, so that strip,      *)
(* replace, capitalize, the regular expressions and the parsers are        *)
(* computed character by character.  A Python value is a record tagged by  *)
(* its type: None/NaN, bool, str, int, float, list.                        *)
(***************************************************************************)
EXTENDS Integers, Sequences, FiniteSets, TLC

VARIABLES
    pc,        \* position of the run: which step of etl_pipeline / main is next
    registry,  \* contracts.json: the list of contract records, or NoFile
    csv,       \* the raw transaction file: a list of raw rows, or NoFile
    index,     \* provider_to_contracts_dict (etl_pipeline's local)
    df,        \* invoice_df, the working table of etl_pipeline
    cleaned_subset,  \* the table etl_pipeline returns
    master,    \* the rolling cleaned file at master_cleaned_path
    scored,    \* the table returned by add_risk_scores
    exc,       \* the exception that ended the run, "" while none
    call,      \* a direct call of one function: its name and arguments
    ret,       \* what that call returned or raised
    runs       \* history: the lines each finished etl_pipeline run had to persist

vars == <<pc, registry, csv, index, df, cleaned_subset, master, scored, exc, call, ret, runs>>

---------------------------------------------------------------------------
(* Characters *)

LowerChars == <<"a","b","c","d","e","f","g","h","i","j","k","l","m",
                "n","o","p","q","r","s","t","u","v","w","x","y","z">>
UpperChars == <<"A","B","C","D","E","F","G","H","I","J","K","L","M",
                "N","O","P","Q","R","S","T","U","V","W","X","Y","Z">>
DigitChars == <<"0","1","2","3","4","5","6","7","8","9">>

Range(f) == {f[i] : i \in DOMAIN f}

Pos(seq, c) == CHOOSE i \in DOMAIN seq : seq[i] = c

IsLower(c) == c \in Range(LowerChars)
IsUpper(c) == c \in Range(UpperChars)
IsDigit(c) == c \in Range(DigitChars)
IsSpace(c) == c \in {" ", "\t", "\n"}
\* regular expression \w: letters, digits and the underscore
IsWord(c)  == IsLower(c) \/ IsUpper(c) \/ IsDigit(c) \/ c = "_"

DigitVal(c) == Pos(DigitChars, c) - 1
DigitChar(n) == DigitChars[n + 1]

LowerC(c) == IF IsUpper(c) THEN LowerChars[Pos(UpperChars, c)] ELSE c
UpperC(c) == IF IsLower(c) THEN UpperChars[Pos(LowerChars, c)] ELSE c

\* code-point order of the characters the model uses
CodeOrder == <<"\t", "\n", " ", "$", "(", ")", ",", "-", ".", "/">> \o DigitChars
             \o UpperChars \o <<"_">> \o LowerChars
Code(c) == Pos(CodeOrder, c)

---------------------------------------------------------------------------
(* str methods *)

Lower(s) == [i \in DOMAIN s |-> LowerC(s[i])]

\* str.capitalize(): first character upper-cased, all the others lower-cased
Capitalize(s) == [i \in DOMAIN s |-> IF i = 1 THEN UpperC(s[i]) ELSE LowerC(s[i])]

RECURSIVE LStrip(_)
LStrip(s) == IF s # <<>> /\ IsSpace(Head(s)) THEN LStrip(Tail(s)) ELSE s

RECURSIVE RStrip(_)
RStrip(s) == IF s # <<>> /\ IsSpace(s[Len(s)])
             THEN RStrip(SubSeq(s, 1, Len(s) - 1)) ELSE s

Strip(s) == RStrip(LStrip(s))

StartsWith(s, p) == Len(p) <= Len(s) /\ SubSeq(s, 1, Len(p)) = p
EndsWith(s, p) == Len(p) <= Len(s) /\ SubSeq(s, Len(s) - Len(p) + 1, Len(s)) = p
Drop(s, n) == SubSeq(s, n + 1, Len(s))

\* str.replace(old, new), old non-empty: leftmost non-overlapping occurrences
RECURSIVE Replace(_, _, _)
Replace(s, old, new) ==
    IF s = <<>> THEN <<>>
    ELSE IF StartsWith(s, old) THEN new \o Replace(Drop(s, Len(old)), old, new)
    ELSE <<Head(s)>> \o Replace(Tail(s), old, new)

Contains(s, c) == c \in Range(s)
Count(s, c) == Cardinality({i \in DOMAIN s : s[i] = c})

\* str.split(sep), sep one character: the pieces between the separators
RECURSIVE SplitOn(_, _)
SplitOn(s, sep) ==
    IF ~Contains(s, sep) THEN <<s>>
    ELSE LET i == CHOOSE k \in DOMAIN s :
                      s[k] = sep /\ \A j \in 1..(k - 1) : s[j] # sep
         IN  <<SubSeq(s, 1, i - 1)>> \o SplitOn(Drop(s, i), sep)

\* sep.join(parts)
RECURSIVE Join(_, _)
Join(parts, sep) ==
    IF parts = <<>> THEN <<>>
    ELSE IF Len(parts) = 1 THEN parts[1]
    ELSE parts[1] \o sep \o Join(Tail(parts), sep)

\* str.split(): the maximal runs of non-whitespace characters
RECURSIVE Tokens(_)
Tokens(s) ==
    LET t == LStrip(s)
    IN  IF t = <<>> THEN <<>>
        ELSE LET n == IF \E k \in DOMAIN t : IsSpace(t[k])
                      THEN (CHOOSE k \in DOMAIN t :
                                IsSpace(t[k]) /\ \A j \in 1..(k - 1) : ~IsSpace(t[j])) - 1
                      ELSE Len(t)
             IN  <<SubSeq(t, 1, n)>> \o Tokens(Drop(t, n))

\* lexicographic order on text by code point (Python's str <)
RECURSIVE StrLess(_, _)
StrLess(a, b) ==
    IF b = <<>> THEN FALSE
    ELSE IF a = <<>> THEN TRUE
    ELSE IF Head(a) = Head(b) THEN StrLess(Tail(a), Tail(b))
    ELSE Code(Head(a)) < Code(Head(b))

\* sorted(set of texts)
RECURSIVE SortedStrs(_)
SortedStrs(set) ==
    IF set = {} THEN <<>>
    ELSE LET m == CHOOSE x \in set : \A y \in set \ {x} : StrLess(x, y)
         IN  <<m>> \o SortedStrs(set \ {m})

---------------------------------------------------------------------------
(* Python values *)

\* None and NaN: both are "missing" to pd.isna and to every test in the code
Null     == [t |-> "null"]
Bool(b)  == [t |-> "bool", b |-> b]
S(s)     == [t |-> "str", s |-> s]
I(n)     == [t |-> "int", n |-> n]
\* the float n/d, d a power of ten and n/d in lowest such terms; d = 0 is
\* +inf (n = 1) or -inf (n = -1)
F(n, d)  == [t |-> "float", n |-> n, d |-> d]
L(items) == [t |-> "list", items |-> items]

PyTrue  == Bool(TRUE)
PyFalse == Bool(FALSE)

IsStr(v) == v.t = "str"
IsNum(v) == v.t \in {"int", "float", "bool"}
\* pd.isna / np.isnan on a scalar
IsNa(v)  == v.t = "null"

\* bool(v): the truth value Python gives v (None for the missing value)
Truthy(v) ==
    CASE v.t = "null"  -> FALSE
      [] v.t = "bool"  -> v.b
      [] v.t = "str"   -> v.s # <<>>
      [] v.t = "int"   -> v.n # 0
      [] v.t = "float" -> v.n # 0
      [] v.t = "list"  -> v.items # <<>>

RECURSIVE Pow10(_)
Pow10(k) == IF k = 0 THEN 1 ELSE 10 * Pow10(k - 1)

\* numerator and denominator of a number
NumN(v) == IF v.t = "bool" THEN (IF v.b THEN 1 ELSE 0) ELSE v.n
NumD(v) == IF v.t = "float" THEN v.d ELSE 1

\* n/d with the trailing zeros of the fraction removed
RECURSIVE Normalize(_, _)
Normalize(n, d) ==
    IF d > 1 /\ n % 10 = 0 THEN Normalize(n \div 10, d \div 10) ELSE F(n, d)

\* Python ==, as dict keys, set members and tuple items are compared: numbers
\* by value across int, float and bool, text by content; the missing value
\* of a table cell is NaN, which equals nothing
PyEq(a, b) ==
    IF IsNum(a) /\ IsNum(b)
    THEN IF NumD(a) = 0 \/ NumD(b) = 0
         THEN NumD(a) = NumD(b) /\ NumN(a) = NumN(b)
         ELSE NumN(a) * NumD(b) = NumN(b) * NumD(a)
    ELSE a.t = b.t /\ a.t # "null" /\ a = b

\* FloatGT with the bound itself included
FloatGE(x, k) == IF x.d = 0 THEN x.n > 0 ELSE x.n \div x.d >= k

\* x > k and x < k for a float x and an integer k (\div rounds down)
FloatGT(x, k) ==
    IF x.d = 0 THEN x.n > 0
    ELSE x.n \div x.d > k \/ (x.n \div x.d = k /\ x.n % x.d # 0)
FloatLT(x, k) == IF x.d = 0 THEN x.n < 0 ELSE x.n \div x.d < k

\* decimal digits of a natural number
RECURSIVE NatStr(_)
NatStr(n) == IF n < 10 THEN <<DigitChar(n)>>
             ELSE NatStr(n \div 10) \o <<DigitChar(n % 10)>>

\* the k digits of the fraction m / 10^k
RECURSIVE FracStr(_, _)
FracStr(m, k) == IF k = 0 THEN <<>>
                 ELSE FracStr(m \div 10, k - 1) \o <<DigitChar(m % 10)>>

RECURSIVE Log10(_)
Log10(d) == IF d <= 1 THEN 0 ELSE 1 + Log10(d \div 10)

\* repr of a float: "1200000.0", "0.5", "inf"; below 0.0001 the exponent
\* form "1e-05", "1.5e-05" (the exponent form of 1e16 and above is beyond
\* the integers of the model)
FloatStr(x) ==
    LET a    == IF x.n < 0 THEN 0 - x.n ELSE x.n
        sign == IF x.n < 0 THEN <<"-">> ELSE <<>>
        k    == Log10(x.d)
        digs == NatStr(a)
        e    == k - (Len(digs) - 1)
    IN  IF x.d = 0 THEN sign \o <<"i", "n", "f">>
        ELSE IF a # 0 /\ x.d > 10000 /\ a < x.d \div 10000
        THEN sign \o <<Head(digs)>>
             \o (IF Len(digs) > 1 THEN <<".">> \o Tail(digs) ELSE <<>>)
             \o <<"e", "-">> \o (IF e < 10 THEN <<"0">> ELSE <<>>) \o NatStr(e)
        ELSE sign \o NatStr(a \div x.d) \o <<".">>
             \o (IF k = 0 THEN <<"0">> ELSE FracStr(a % x.d, k))

\* str(v)
PyStr(v) ==
    CASE v.t = "str"   -> v.s
      [] v.t = "int"   -> (IF v.n < 0 THEN <<"-">> \o NatStr(0 - v.n) ELSE NatStr(v.n))
      [] v.t = "float" -> FloatStr(v)
      [] v.t = "bool"  -> (IF v.b THEN <<"T","r","u","e">> ELSE <<"F","a","l","s","e">>)
      [] v.t = "null"  -> <<"n","a","n">>

\* value of a text of digits
RECURSIVE DigitsVal(_)
DigitsVal(s) == IF s = <<>> THEN 0
                ELSE 10 * DigitsVal(SubSeq(s, 1, Len(s) - 1)) + DigitVal(s[Len(s)])

AllDigits(s) == \A i \in DOMAIN s : IsDigit(s[i])

\* float(text): [ok, v]; ok = FALSE is ValueError.  Accepts, after strip, an
\* optional sign and then inf/infinity/nan in any case or digits with at
\* most one dot and at least one digit.  (Exponents and underscores are not
\* written by any text of the model.)
ParseFloat(s) ==
    LET t    == Strip(s)
        neg  == t # <<>> /\ Head(t) = "-"
        body == IF t # <<>> /\ Head(t) \in {"-", "+"} THEN Tail(t) ELSE t
        low  == Lower(body)
        ip   == IF Contains(body, ".") THEN SplitOn(body, ".")[1] ELSE body
        fp   == IF Contains(body, ".") THEN SplitOn(body, ".")[2] ELSE <<>>
        n    == DigitsVal(ip \o fp)
    IN  IF low \in {<<"i","n","f">>, <<"i","n","f","i","n","i","t","y">>}
        THEN [ok |-> TRUE, v |-> F(IF neg THEN -1 ELSE 1, 0)]
        ELSE IF low = <<"n","a","n">> THEN [ok |-> TRUE, v |-> Null]
        ELSE IF Count(body, ".") <= 1 /\ AllDigits(ip) /\ AllDigits(fp)
                /\ ip \o fp # <<>>
        THEN [ok |-> TRUE, v |-> Normalize(IF neg THEN 0 - n ELSE n, Pow10(Len(fp)))]
        ELSE [ok |-> FALSE, v |-> Null]

---------------------------------------------------------------------------
(* utils.py: the registry and the provider index *)

\* an absent file (os.path.exists is False)
NoFile == [exists |-> FALSE]
File(content) == [exists |-> TRUE, content |-> content]

\* what a function hands back: a value, or the exception it raised
Returned(v) == [exc |-> "", value |-> v]
Raised(e)   == [exc |-> e, value |-> Null]

\* one record of contracts.json as the core reads it
Contract(p, t, n, e) ==
    [service_provider |-> p, contract_title |-> t,
     contract_number |-> n, expiry_date |-> e]

MapSeq(seq, Op(_)) == [i \in DOMAIN seq |-> Op(seq[i])]

\* json.load: the list of the file, [] when the file is absent or empty
load_json_data_list(file) == IF file.exists THEN file.content ELSE <<>>

\* a column value pd.read_json can turn into a number
JsonNumeric(v) == v.t \in {"int", "float"} \/ (IsStr(v) /\ ParseFloat(v.s).ok
                                               /\ ParseFloat(v.s).v # Null)
JsonNumber(v)  == IF IsStr(v) THEN ParseFloat(v.s).v ELSE v

\* pd.read_json's dtype inference on the contract_number column: when every
\* value converts to a float the column becomes numeric, and int64 when all
\* of its values are whole; otherwise the column is left as it is.  The
\* text columns of the registries below are never all-numeric and stay text.
load_json_data_df(file) ==
    LET rows    == load_json_data_list(file)
        numeric == \A i \in DOMAIN rows : JsonNumeric(rows[i].contract_number)
        whole   == \A i \in DOMAIN rows :
                       LET x == JsonNumber(rows[i].contract_number)
                       IN  NumD(x) = 1
        Conv(c) == LET x == JsonNumber(c.contract_number)
                   IN  [c EXCEPT !.contract_number =
                            IF whole THEN I(NumN(x)) ELSE F(NumN(x), NumD(x))]
    IN  IF numeric THEN MapSeq(rows, Conv) ELSE rows

\* a dict: its items in key order
DictKeys(d) == [i \in DOMAIN d |-> d[i].key]
DictHas(d, k) == \E i \in DOMAIN d : PyEq(d[i].key, k)
\* d.get(k): the value (here a list of contract records), or None
DictGet(d, k) ==
    IF DictHas(d, k) THEN d[CHOOSE i \in DOMAIN d : PyEq(d[i].key, k)].val ELSE Null

\* GroupByProvider with the rows of each group in reverse file order
GroupByProviderReversed(frame) ==
    LET keys  == SortedStrs({frame[i].service_provider.s : i \in
                     {j \in DOMAIN frame : IsStr(frame[j].service_provider)}})
        rev   == [i \in DOMAIN frame |-> frame[Len(frame) + 1 - i]]
        Pair(c) == [contract_title |-> c.contract_title,
                    contract_number |-> c.contract_number]
        Group(k) == MapSeq(SelectSeq(rev, LAMBDA c : c.service_provider = S(k)), Pair)
    IN  IF frame = <<>> THEN Raised("KeyError")
        ELSE Returned([i \in DOMAIN keys |-> [key |-> S(keys[i]), val |-> L(Group(keys[i]))]])

\* groupby("service_provider")[[title, number]].apply(to_dict("records")).to_dict():
\* one key per distinct provider in sorted order (rows with a missing provider
\* are dropped), each with its rows in file order.  An empty frame has no
\* service_provider column: KeyError.
GroupByProvider(frame) ==
    LET keys  == SortedStrs({frame[i].service_provider.s : i \in
                     {j \in DOMAIN frame : IsStr(frame[j].service_provider)}})
        Pair(c) == [contract_title |-> c.contract_title,
                    contract_number |-> c.contract_number]
        Group(k) == MapSeq(SelectSeq(frame, LAMBDA c : c.service_provider = S(k)), Pair)
    IN  IF frame = <<>> THEN Raised("KeyError")
        ELSE Returned([i \in DOMAIN keys |-> [key |-> S(keys[i]), val |-> L(Group(keys[i]))]])

get_provider_to_contracts_dict(file) == GroupByProvider(load_json_data_df(file))

---------------------------------------------------------------------------
(* fuzzywuzzy, as etl.py calls it: process.extractOne(query, choices,       *)
(* scorer=fuzz.token_set_ratio), with difflib's SequenceMatcher behind      *)
(* fuzz.ratio                                                               *)

Max(a, b) == IF a >= b THEN a ELSE b

\* length of the longest common prefix
RECURSIVE CommonPrefix(_, _)
CommonPrefix(a, b) ==
    IF a = <<>> \/ b = <<>> \/ Head(a) # Head(b) THEN 0
    ELSE 1 + CommonPrefix(Tail(a), Tail(b))

\* SequenceMatcher.find_longest_match: the longest block a[i..i+k-1] =
\* b[j..j+k-1]; of the longest, the one starting earliest in a, and of those
\* the one starting earliest in b.  k = 0 when no character is shared.
LongestMatch(a, b) ==
    LET K(i, j) == CommonPrefix(Drop(a, i - 1), Drop(b, j - 1))
        pairs   == (DOMAIN a) \X (DOMAIN b)
        best    == CHOOSE p \in pairs : \A q \in pairs :
                       \/ K(p[1], p[2]) > K(q[1], q[2])
                       \/ /\ K(p[1], p[2]) = K(q[1], q[2])
                          /\ (p[1] < q[1] \/ (p[1] = q[1] /\ p[2] <= q[2]))
    IN  IF pairs = {} THEN [i |-> 1, j |-> 1, k |-> 0]
        ELSE [i |-> best[1], j |-> best[2], k |-> K(best[1], best[2])]

\* total size of SequenceMatcher.get_matching_blocks: the longest match, then
\* the same to its left and to its right
RECURSIVE Matches(_, _)
Matches(a, b) ==
    LET m == LongestMatch(a, b)
    IN  IF m.k = 0 THEN 0
        ELSE m.k + Matches(SubSeq(a, 1, m.i - 1), SubSeq(b, 1, m.j - 1))
                 + Matches(Drop(a, m.i + m.k - 1), Drop(b, m.j + m.k - 1))

\* int(round(100 * p / q)): Python rounds a half to the even neighbour
RoundRatio(p, q) ==
    LET x == 100 * p
        f == x \div q
        r == x % q
    IN  IF 2 * r < q THEN f
        ELSE IF 2 * r > q THEN f + 1
        ELSE IF f % 2 = 0 THEN f ELSE f + 1

\* fuzz.ratio: 100 for equal texts, 0 if either is empty, else 100 * 2M / T
ratio(s1, s2) ==
    IF s1 = s2 THEN 100
    ELSE IF s1 = <<>> \/ s2 = <<>> THEN 0
    ELSE RoundRatio(2 * Matches(s1, s2), Len(s1) + Len(s2))

\* utils.full_process: every non-word character becomes a space, then
\* lower-case, then strip
full_process(s) ==
    Strip(Lower([i \in DOMAIN s |-> IF IsWord(s[i]) THEN s[i] ELSE " "]))

\* fuzz.token_set_ratio on processed texts (full_process = False)
token_set_ratio(p1, p2) ==
    LET tokens1 == Range(Tokens(p1))
        tokens2 == Range(Tokens(p2))
        sp      == <<" ">>
        sect    == Join(SortedStrs(tokens1 \cap tokens2), sp)
        d1to2   == Join(SortedStrs(tokens1 \ tokens2), sp)
        d2to1   == Join(SortedStrs(tokens2 \ tokens1), sp)
        c1to2   == Strip(sect \o sp \o d1to2)
        c2to1   == Strip(sect \o sp \o d2to1)
    IN  IF p1 = p2 THEN 100
        ELSE IF p1 = <<>> \/ p2 = <<>> THEN 0
        ELSE Max(ratio(sect, c1to2), Max(ratio(sect, c2to1), ratio(c1to2, c2to1)))

\* the score of every choice against the processed query
Scores(q, choices) ==
    [i \in DOMAIN choices |-> token_set_ratio(q, full_process(choices[i].s))]

\* the choice with the highest score, the first of them in list order on a tie
BestChoice(choices, scores) ==
    LET best == CHOOSE i \in DOMAIN choices : \A j \in DOMAIN choices :
                    scores[i] > scores[j] \/ (scores[i] = scores[j] /\ i <= j)
    IN  [found |-> TRUE, match |-> choices[best], score |-> scores[best]]

\* process.extractOne: the best choice and its score; None for an empty list
extractOne(query, choices) ==
    IF choices = <<>> THEN [found |-> FALSE, match |-> Null, score |-> 0]
    ELSE BestChoice(choices, Scores(full_process(query), choices))

---------------------------------------------------------------------------
(* etl.py: the cleaners.  Each returns the tuple (flag, value) with flag     *)
(* None (unresolved), True (resolved, changed) or False (resolved,          *)
(* unchanged), or raises.                                                   *)

Tuple(flag, value) == [exc |-> "", flag |-> flag, value |-> value]
Raise(e)           == [exc |-> e, flag |-> Null, value |-> Null]

\* constants.py
DEFAULT_UNIT == 1000000

\* clean_provider's default thresholds
high_threshold == 80
low_threshold  == 60

\* re.sub(r'(?<=[a-z])([A-Z])', r' \1', s): a space before every upper-case
\* letter that directly follows a lower-case letter
RECURSIVE SplitCamel(_, _)
SplitCamel(s, i) ==
    IF i > Len(s) THEN <<>>
    ELSE (IF i > 1 /\ IsUpper(s[i]) /\ IsLower(s[i - 1]) THEN <<" ">> ELSE <<>>)
         \o <<s[i]>> \o SplitCamel(s, i + 1)

\* re.sub(alt1|alt2|..., "", s): at each position the first alternative, in
\* the order written, that matches there is removed
RECURSIVE RemoveAlternatives(_, _)
RemoveAlternatives(s, alts) ==
    IF s = <<>> THEN <<>>
    ELSE IF \E k \in DOMAIN alts : StartsWith(s, alts[k])
    THEN LET k == CHOOSE k \in DOMAIN alts :
                      StartsWith(s, alts[k]) /\ \A j \in 1..(k - 1) : ~StartsWith(s, alts[j])
         IN  RemoveAlternatives(Drop(s, Len(alts[k])), alts)
    ELSE <<Head(s)>> \o RemoveAlternatives(Tail(s), alts)

\* the alternatives of r"\(AU\)|(AUS)": the text (AU), or the letters AUS
\* (the second pair of parentheses is a group, not literal characters)
SuffixPattern == << <<"(", "A", "U", ")">>, <<"A", "U", "S">> >>

\* the alternatives of r"m|mil|million"
MillionPattern == << <<"m">>, <<"m", "i", "l">>, <<"m", "i", "l", "l", "i", "o", "n">> >>

\* Matched with the input, not the matched name, handed back
MatchedAsWritten(found, original) == Tuple(PyFalse, S(original))

\* the return for an accepted match: changed when it differs from the input
Matched(found, original) ==
    IF found.match # S(original) THEN Tuple(PyTrue, found.match)
    ELSE Tuple(PyFalse, S(original))

\* LenientPass with a score of low_threshold itself accepted
LenientPassAtLeast(original, lenient) ==
    IF lenient.found /\ lenient.score >= low_threshold THEN Matched(lenient, original)
    ELSE Tuple(Null, S(original))

\* second pass: normalize and match again
LenientPass(original, lenient) ==
    IF lenient.found /\ lenient.score > low_threshold THEN Matched(lenient, original)
    ELSE Tuple(Null, S(original))

Normalized(original) ==
    Strip(RemoveAlternatives(Strip(SplitCamel(original, 1)), SuffixPattern))

\* first pass: strict matching
StrictPass(original, strict, correct_providers) ==
    IF strict.found /\ strict.score >= high_threshold THEN Matched(strict, original)
    ELSE LenientPass(original, extractOne(Normalized(original), correct_providers))

MatchProvider(original, correct_providers) ==
    StrictPass(original, extractOne(original, correct_providers), correct_providers)

clean_provider(provider, correct_providers) ==
    IF ~Truthy(provider) \/ ~IsStr(provider) THEN Tuple(Null, provider)
    ELSE MatchProvider(Strip(provider.s), correct_providers)

\* re.sub(r"[^\d.]", "", s)
DigitsAndDots(s) == SelectSeq(s, LAMBDA c : IsDigit(c) \/ c = ".")

\* x * k for a float x and an integer k, in lowest terms
RECURSIVE TimesInt(_, _, _)
TimesInt(n, d, k) ==
    IF d > 1 /\ k % 10 = 0 THEN TimesInt(n, d \div 10, k \div 10)
    ELSE Normalize(n * k, d)

\* CollapseDots keeping the first dot, not the last
CollapseDotsKeepFirst(stripped) ==
    LET parts == SplitOn(stripped, ".")
    IN  IF Count(stripped, ".") > 1
        THEN parts[1] \o <<".">> \o Join(SubSeq(parts, 2, Len(parts)), <<>>)
        ELSE stripped

\* more than one decimal point: ''.join(parts[:-1]) + '.' + parts[-1]
CollapseDots(stripped) ==
    LET parts == SplitOn(stripped, ".")
    IN  IF Count(stripped, ".") > 1
        THEN Join(SubSeq(parts, 1, Len(parts) - 1), <<>>) \o <<".">> \o parts[Len(parts)]
        ELSE stripped

clean_invoice_amount(amount) ==
    IF IsNa(amount) THEN Tuple(Null, amount)
    ELSE
    LET text       == IF IsStr(amount) THEN amount.s ELSE PyStr(amount)
        original   == Strip(text)
        amount_str == Strip(Lower(original))
        \* millions shorthand
        no_marker  == Strip(RemoveAlternatives(amount_str, MillionPattern))
        millions   == ParseFloat(DigitsAndDots(no_marker))
        \* plain number
        cleaned_amount_str == CollapseDots(DigitsAndDots(amount_str))
        value      == ParseFloat(cleaned_amount_str)
    IN  IF Contains(amount_str, "m")
        THEN IF millions.ok
             THEN Tuple(PyTrue, TimesInt(millions.v.n, millions.v.d, DEFAULT_UNIT))
             ELSE Tuple(Null, S(original))
        ELSE IF value.ok
             THEN Tuple(Bool(cleaned_amount_str # original), value.v)
             ELSE Tuple(Null, S(original))

\* calendar
IsLeap(y) == (y % 4 = 0 /\ y % 100 # 0) \/ y % 400 = 0
DaysInMonth(y, m) ==
    IF m = 2 THEN (IF IsLeap(y) THEN 29 ELSE 28)
    ELSE IF m \in {4, 6, 9, 11} THEN 30 ELSE 31

\* the month names strptime knows (C locale), compared ignoring case
MonthAbbr == <<<<"j","a","n">>, <<"f","e","b">>, <<"m","a","r">>, <<"a","p","r">>,
               <<"m","a","y">>, <<"j","u","n">>, <<"j","u","l">>, <<"a","u","g">>,
               <<"s","e","p">>, <<"o","c","t">>, <<"n","o","v">>, <<"d","e","c">>>>
MonthFull == <<<<"j","a","n","u","a","r","y">>, <<"f","e","b","r","u","a","r","y">>, <<"m","a","r","c","h">>,
               <<"a","p","r","i","l">>, <<"m","a","y">>, <<"j","u","n","e">>,
               <<"j","u","l","y">>, <<"a","u","g","u","s","t">>, <<"s","e","p","t","e","m","b","e","r">>,
               <<"o","c","t","o","b","e","r">>, <<"n","o","v","e","m","b","e","r">>, <<"d","e","c","e","m","b","e","r">>>>

\* DateFormats with month-day-year tried before day-month-year
DateFormatsMonthFirst ==
    << <<"Y", "m", "d">>, <<"m", "d", "Y">>, <<"d", "m", "Y">>, <<"d", "b", "Y">>,
       <<"d", "B", "Y">>, <<"B", "d", "Y">>, <<"y", "m", "d">> >>

\* the formats clean_date tries, in order; each is three directives joined
\* by "-"
DateFormats == << <<"Y", "m", "d">>,   \* %Y-%m-%d
                  <<"d", "m", "Y">>,   \* %d-%m-%Y
                  <<"m", "d", "Y">>,   \* %m-%d-%Y
                  <<"d", "b", "Y">>,   \* %d-%b-%Y
                  <<"d", "B", "Y">>,   \* %d-%B-%Y
                  <<"B", "d", "Y">>,   \* %B-%d-%Y
                  <<"y", "m", "d">> >> \* %y-%m-%d

\* the number a directive reads from a piece of text, -1 when the piece does
\* not match the directive's pattern in full (strptime: %d is 1..31 in one
\* or two digits, %m is 1..12 in one or two digits, %Y is four digits, %y
\* is two digits with 00..68 -> 20xx and 69..99 -> 19xx)
Directive(d, part) ==
    LET n == DigitsVal(part)
        low == Lower(part)
    IN  CASE d = "d" -> IF AllDigits(part) /\ Len(part) \in {1, 2} /\ n \in 1..31
                        THEN n ELSE -1
          [] d = "m" -> IF AllDigits(part) /\ Len(part) \in {1, 2} /\ n \in 1..12
                        THEN n ELSE -1
          [] d = "Y" -> IF AllDigits(part) /\ Len(part) = 4 THEN n ELSE -1
          [] d = "y" -> IF AllDigits(part) /\ Len(part) = 2
                        THEN (IF n <= 68 THEN 2000 + n ELSE 1900 + n) ELSE -1
          [] d = "b" -> IF low \in Range(MonthAbbr) THEN Pos(MonthAbbr, low) ELSE -1
          [] d = "B" -> IF low \in Range(MonthFull) THEN Pos(MonthFull, low) ELSE -1

\* datetime.strptime(text, fmt): [ok, y, m, d]; ok = FALSE is ValueError
strptime(text, fmt) ==
    LET parts == SplitOn(text, "-")
        At(k) == Directive(fmt[k], parts[k])
        Pick(set) == CHOOSE k \in 1..3 : fmt[k] \in set
        y == At(Pick({"Y", "y"}))
        m == At(Pick({"m", "b", "B"}))
        d == At(Pick({"d"}))
    IN  IF Len(parts) = 3 /\ (\A k \in 1..3 : At(k) # -1)
           /\ y >= 1 /\ d <= DaysInMonth(y, m)
        THEN [ok |-> TRUE, y |-> y, m |-> m, d |-> d]
        ELSE [ok |-> FALSE, y |-> 0, m |-> 0, d |-> 0]

\* n in at least w digits, zero-padded
RECURSIVE Pad(_, _)
Pad(n, w) == IF Len(NatStr(n)) >= w THEN NatStr(n)
             ELSE [i \in 1..(w - Len(NatStr(n))) |-> "0"] \o NatStr(n)

\* strftime("%Y-%m-%d")
IsoDate(y, m, d) == Pad(y, 4) \o <<"-">> \o Pad(m, 2) \o <<"-">> \o Pad(d, 2)

clean_date(date_str) ==
    IF IsNa(date_str) \/ ~IsStr(date_str) THEN Tuple(Null, date_str)
    ELSE IF Strip(date_str.s) = <<>> THEN Tuple(Null, date_str)
    ELSE
    LET original == Strip(date_str.s)
        \* commas are deleted; slashes and spaces become dashes
        date_str_clean ==
            Replace(Replace(Replace(Strip(date_str.s),
                <<",">>, <<>>), <<"/">>, <<"-">>), <<" ">>, <<"-">>)
        parses == {k \in DOMAIN DateFormats : strptime(date_str_clean, DateFormats[k]).ok}
        first  == CHOOSE k \in parses : \A j \in parses : k <= j
        got    == strptime(date_str_clean, DateFormats[first])
        cleaned == IsoDate(got.y, got.m, got.d)
    IN  IF parses = {} THEN Tuple(Null, S(original))
        ELSE IF cleaned # original THEN Tuple(PyTrue, S(cleaned))
        ELSE Tuple(PyFalse, S(original))

\* pd.isna(x) or str(x).strip() == ""
Blank(x) == IsNa(x) \/ Strip(PyStr(x)) = <<>>

\* x in {c[field] for c in contracts}
InValues(x, values) == \E i \in DOMAIN values : PyEq(values[i], x)

\* the titles and the numbers of a list of contracts
TitlesOf(contracts)  == [i \in DOMAIN contracts |-> contracts[i].contract_title]
NumbersOf(contracts) == [i \in DOMAIN contracts |-> contracts[i].contract_number]

\* NumberHits with contract_num compared as given
NumberHitsUntrimmed(list, contract_num) ==
    {i \in DOMAIN list : PyStr(list[i].contract_number) = contract_num.s}

\* for contract in contracts: str(contract['contract_number']) == contract_num.strip()
NumberHits(list, contract_num) ==
    {i \in DOMAIN list : PyStr(list[i].contract_number) = Strip(contract_num.s)}

\* the first of the positions of a loop that returns at its first hit
FirstOf(hits) == CHOOSE i \in hits : \A j \in hits : i <= j

\* several contracts: the loop over them; .strip() on a contract number that
\* is not text raises
TitleByNumber(list, contract_title, contract_num) ==
    IF ~IsStr(contract_num) THEN Raise("AttributeError")
    ELSE IF NumberHits(list, contract_num) # {}
    THEN Tuple(PyTrue, list[FirstOf(NumberHits(list, contract_num))].contract_title)
    ELSE Tuple(Null, contract_title)

\* TitleFromNumber without the shortcut for one contract
TitleFromNumberScanOnly(list, contract_title, contract_num) ==
    TitleByNumber(list, contract_title, contract_num)

\* one contract: its title, the number unread
TitleFromNumber(list, contract_title, contract_num) ==
    IF Len(list) = 1 THEN Tuple(PyTrue, list[1].contract_title)
    ELSE TitleByNumber(list, contract_title, contract_num)

\* RecoverTitle without the test for a blank number
RecoverTitleUnguarded(list, contract_title, contract_num) ==
    TitleFromNumber(list, contract_title, contract_num)

\* the title is none of the provider's: it is recovered from the number,
\* unless the number is blank
RecoverTitle(list, contract_title, contract_num) ==
    IF Blank(contract_num) THEN Tuple(Null, contract_title)
    ELSE TitleFromNumber(list, contract_title, contract_num)

clean_title(provider_clean, contract_title, contract_num, provider_to_contracts_dict) ==
    LET contracts == DictGet(provider_to_contracts_dict, provider_clean)
    IN  IF Blank(contract_title) /\ ~DictHas(provider_to_contracts_dict, provider_clean)
        THEN Tuple(Null, contract_title)
        ELSE IF ~Truthy(contracts) THEN Tuple(Null, contract_title)
        ELSE IF ~InValues(contract_title, TitlesOf(contracts.items))
        THEN RecoverTitle(contracts.items, contract_title, contract_num)
        ELSE Tuple(PyFalse, contract_title)

\* number_lookup_key as the cleaned provider name
number_lookup_key_provider(provider_clean) == provider_clean

\* the key of provider_to_contracts_dict.get(""): the empty text, whatever
\* provider_clean is
number_lookup_key(provider_clean) == S(<<>>)

clean_number(provider_clean, contract_number, title_clean, provider_to_contracts_dict) ==
    LET contracts == DictGet(provider_to_contracts_dict,
                             number_lookup_key(provider_clean))
        list      == contracts.items
        \* for contract in contracts: str(title) == title_clean
        hits      == {i \in DOMAIN list : S(PyStr(list[i].contract_title)) = title_clean}
        first     == CHOOSE i \in hits : \A j \in hits : i <= j
    IN  IF Blank(contract_number) /\ ~DictHas(provider_to_contracts_dict, provider_clean)
        THEN Tuple(Null, contract_number)
        ELSE IF ~Truthy(contracts) THEN Tuple(Null, contract_number)
        ELSE IF ~InValues(contract_number, NumbersOf(list))
        THEN IF Blank(title_clean) THEN Tuple(Null, contract_number)
             ELSE IF Len(list) = 1 THEN Tuple(PyTrue, list[1].contract_number)
             ELSE IF hits # {} THEN Tuple(PyTrue, list[first].contract_number)
             ELSE Tuple(Null, contract_number)
        ELSE Tuple(PyFalse, contract_number)

---------------------------------------------------------------------------
(* the table (pandas DataFrame): its column names in order, and one sequence *)
(* of cells per row, aligned with the columns                                *)

ColInvoiceID == <<"I","n","v","o","i","c","e","I","D">>
ColContractTitle == <<"C","o","n","t","r","a","c","t","T","i","t","l","e">>
ColProvider == <<"P","r","o","v","i","d","e","r">>
ColInvoiceAmount == <<"I","n","v","o","i","c","e","A","m","o","u","n","t">>
ColInvoiceDate == <<"I","n","v","o","i","c","e","D","a","t","e">>
ColContractNumber == <<"C","o","n","t","r","a","c","t","N","u","m","b","e","r">>
ColFailedFields == <<"F","a","i","l","e","d","F","i","e","l","d","s">>
ColModifiedFields == <<"M","o","d","i","f","i","e","d","F","i","e","l","d","s">>
FlagSuffix == <<"_","F","l","a","g">>
CleanSuffix == <<"_","C","l","e","a","n">>

\* the columns of the transaction file, as data_generator.py writes them
CsvColumns == <<ColInvoiceID, ColContractTitle, ColProvider, ColInvoiceAmount,
                ColInvoiceDate, ColContractNumber>>

Frame(columns, rows) == [columns |-> columns, rows |-> rows]
EmptyFrame == Frame(<<>>, <<>>)

HasCol(frame, c) == c \in Range(frame.columns)
ColIdx(frame, c) == Pos(frame.columns, c)
\* row[c] of row r
Cell(frame, r, c) == frame.rows[r][ColIdx(frame, c)]
\* row.get(c): None when the table has no such column
CellGet(frame, r, c) == IF HasCol(frame, c) THEN Cell(frame, r, c) ELSE Null

\* frame[c] = values: replaces the column, or appends it as the last one
SetCol(frame, c, values) ==
    IF HasCol(frame, c)
    THEN Frame(frame.columns,
               [r \in DOMAIN frame.rows |->
                   [frame.rows[r] EXCEPT ![ColIdx(frame, c)] = values[r]]])
    ELSE Frame(Append(frame.columns, c),
               [r \in DOMAIN frame.rows |-> Append(frame.rows[r], values[r])])

\* frame[cols]: the named columns, in the order named
Project(frame, cols) ==
    Frame(cols, [r \in DOMAIN frame.rows |->
                    [k \in DOMAIN cols |-> Cell(frame, r, cols[k])]])

\* load_csv_data_df: the rows of the file under its header; an empty table
\* with no columns when the file is absent or unreadable
load_csv_data_df(file) ==
    IF file.exists THEN Frame(CsvColumns, file.content) ELSE EmptyFrame

---------------------------------------------------------------------------
(* etl.py: record_issue *)

\* IssueOfFlag with the modified mask taken as "flag is not False"
IssueOfFlagNotFalse(lists, col, flag) ==
    LET field_name == Replace(col, FlagSuffix, <<>>)
    IN  [failed   |-> IF IsNa(flag) THEN Append(lists.failed, field_name)
                      ELSE lists.failed,
         modified |-> IF ~PyEq(flag, PyFalse) THEN Append(lists.modified, field_name)
                      ELSE lists.modified]

\* IssueOfFlag with the failed mask taken as "flag is falsy"
IssueOfFlagFalsy(lists, col, flag) ==
    LET field_name == Replace(col, FlagSuffix, <<>>)
    IN  [failed   |-> IF ~Truthy(flag) THEN Append(lists.failed, field_name)
                      ELSE lists.failed,
         modified |-> IF PyEq(flag, PyTrue) THEN Append(lists.modified, field_name)
                      ELSE lists.modified]

\* one flag column's contribution to a row's two lists
IssueOfFlag(lists, col, flag) ==
    LET field_name == Replace(col, FlagSuffix, <<>>)
        failed   == IF IsNa(flag) THEN Append(lists.failed, field_name)
                    ELSE lists.failed
        modified == IF PyEq(flag, PyTrue) THEN Append(lists.modified, field_name)
                    ELSE lists.modified
    IN  [failed |-> failed, modified |-> modified]

\* the loop over flag_cols for row r, from the k-th flag column on
RECURSIVE IssuesOfRow(_, _, _, _, _)
IssuesOfRow(frame, r, flag_cols, k, lists) ==
    IF k > Len(flag_cols) THEN lists
    ELSE IssuesOfRow(frame, r, flag_cols, k + 1,
                     IssueOfFlag(lists, flag_cols[k], Cell(frame, r, flag_cols[k])))

record_issue(frame, failed_col, modified_col) ==
    LET \* an existing list is kept, anything else becomes []
        Start(r, c) == IF HasCol(frame, c) /\ Cell(frame, r, c).t = "list"
                       THEN Cell(frame, r, c).items ELSE <<>>
        flag_cols == SelectSeq(frame.columns, LAMBDA c : EndsWith(c, FlagSuffix))
        Done(r) == IssuesOfRow(frame, r, flag_cols, 1,
                       [failed |-> Start(r, failed_col),
                        modified |-> Start(r, modified_col)])
        with_failed == SetCol(frame, failed_col,
                              [r \in DOMAIN frame.rows |-> L(Done(r).failed)])
    IN  SetCol(with_failed, modified_col,
               [r \in DOMAIN frame.rows |-> L(Done(r).modified)])

---------------------------------------------------------------------------
(* risk_score.py *)

FAILED_WEIGHTS == <<
    [key |-> <<"P","r","o","v","i","d","e","r">>, val |-> 5],
    [key |-> <<"I","n","v","o","i","c","e","A","m","o","u","n","t">>, val |-> 8],
    [key |-> <<"I","n","v","o","i","c","e","D","a","t","e">>, val |-> 3],
    [key |-> <<"T","i","t","l","e">>, val |-> 5],
    [key |-> <<"N","u","m","b","e","r">>, val |-> 5] >>

MODIFIED_WEIGHTS == <<
    [key |-> <<"P","r","o","v","i","d","e","r">>, val |-> 2],
    [key |-> <<"I","n","v","o","i","c","e","A","m","o","u","n","t">>, val |-> 4],
    [key |-> <<"I","n","v","o","i","c","e","D","a","t","e">>, val |-> 1],
    [key |-> <<"T","i","t","l","e">>, val |-> 2],
    [key |-> <<"N","u","m","b","e","r">>, val |-> 2] >>

CONTRACT_WEIGHTS == <<
    [key |-> <<"E","x","p","i","r","e","d">>, val |-> 15],
    [key |-> <<"E","x","p","i","r","i","n","g","S","o","o","n">>, val |-> 5],
    [key |-> <<"C","o","n","t","r","a","c","t","M","i","s","m","a","t","c","h">>, val |-> 10] >>

FINANCIAL_WEIGHTS == <<
    [key |-> <<"H","i","g","h","A","m","o","u","n","t">>, val |-> 10],
    [key |-> <<"L","o","w","A","m","o","u","n","t">>, val |-> 7] >>

HIGH_AMOUNT_THRESHOLD == 1000000
LOW_AMOUNT_THRESHOLD  == 100

\* the defaults of FAILED_WEIGHTS.get(base, 5) and MODIFIED_WEIGHTS.get(base, 2)
FAILED_DEFAULT   == 5
\* MODIFIED_DEFAULT as high as the default of an unresolved field
ModifiedDefaultAsFailed == FAILED_DEFAULT
MODIFIED_DEFAULT == 2
\* the window of "expiring soon", in days
EXPIRING_DAYS    == 90

\* table[key] and table.get(key, default) of a weight table
WeightHas(table, key) == \E i \in DOMAIN table : table[i].key = key
Weight(table, key) == table[CHOOSE i \in DOMAIN table : table[i].key = key].val
WeightGet(table, key, default) ==
    IF WeightHas(table, key) THEN Weight(table, key) ELSE default

\* safe_float: float(x), NaN on TypeError or ValueError
safe_float(x) ==
    CASE x.t = "float" -> x
      [] x.t = "int"   -> F(x.n, 1)
      [] x.t = "bool"  -> F(NumN(x), 1)
      [] x.t = "str"   -> ParseFloat(x.s).v
      [] OTHER         -> Null

\* days from 1970-01-01 to the civil date y-m-d
DayNumber(y, m, d) ==
    LET yy  == IF m <= 2 THEN y - 1 ELSE y
        era == yy \div 400
        yoe == yy - era * 400
        mp  == IF m > 2 THEN m - 3 ELSE m + 9
        doy == (153 * mp + 2) \div 5 + d - 1
        doe == yoe * 365 + yoe \div 4 - yoe \div 100 + doy
    IN  era * 146097 + doe - 719468

\* a Timestamp: whole days since 1970-01-01 and nanoseconds into the day
Timestamp(day, ns) == [t |-> "time", day |-> day, ns |-> ns]

\* safe_date: pd.to_datetime(x, errors="coerce"), NaT on any failure.  A text
\* is read here only in the ISO form YYYY-MM-DD that clean_date writes (the
\* other texts of the model are ones pandas cannot read either); a
\* non-negative whole number is that many nanoseconds after 1970-01-01.
safe_date(x) ==
    LET parts == SplitOn(Strip(x.s), "-")
        got   == strptime(Strip(x.s), DateFormats[1])
    IN  CASE x.t = "str" ->
                 IF got.ok /\ Len(parts[2]) = 2 /\ Len(parts[3]) = 2
                 THEN Timestamp(DayNumber(got.y, got.m, got.d), 0) ELSE Null
          [] x.t = "int" -> IF x.n >= 0 THEN Timestamp(0, x.n) ELSE Null
          [] x.t = "float" ->
                 IF x.d > 0 /\ x.n >= 0 THEN Timestamp(0, x.n \div x.d) ELSE Null
          [] OTHER -> Null

\* After with the day itself included
AfterOrOn(a, b) == a.day > b.day \/ (a.day = b.day /\ a.ns >= b.ns)

\* a > b on Timestamps
After(a, b) == a.day > b.day \/ (a.day = b.day /\ a.ns > b.ns)
\* (a - b).days: the difference rounded down to whole days
DaysBetween(a, b) == a.day - b.day - (IF a.ns < b.ns THEN 1 ELSE 0)

\* for field in v: the items of a list, the characters of a text
Iterate(v) ==
    CASE v.t = "list" -> v.items
      [] v.t = "str"  -> [i \in DOMAIN v.s |-> <<v.s[i]>>]

\* str(field).replace("_Clean", "").replace("_Flag", "").capitalize()
BaseName(field) ==
    Capitalize(Replace(Replace(field, CleanSuffix, <<>>), FlagSuffix, <<>>))

\* the sum of the weights of the fields of a list
RECURSIVE SumWeights(_, _, _)
SumWeights(fields, table, default) ==
    IF fields = <<>> THEN 0
    ELSE WeightGet(table, BaseName(Head(fields)), default)
         + SumWeights(Tail(fields), table, default)

\* contract_map_of without the condition of the comprehension
contract_map_of_all(contracts) == contracts

\* the dict comprehension of add_risk_scores: the contracts with a truthy
\* provider and title, keyed by (provider, title, number); of two contracts
\* with one key the later replaces the earlier
contract_map_of(contracts) ==
    SelectSeq(contracts, LAMBDA c : Truthy(c.service_provider) /\ Truthy(c.contract_title))

KeyEq(c, provider, title, number) ==
    /\ PyEq(c.service_provider, provider)
    /\ PyEq(c.contract_title, title)
    /\ PyEq(c.contract_number, number)

\* contract_map.get(key): [found, contract]
MapGet(contract_map, provider, title, number) ==
    LET hits == {i \in DOMAIN contract_map : KeyEq(contract_map[i], provider, title, number)}
        last == CHOOSE i \in hits : \A j \in hits : j <= i
    IN  IF hits = {} THEN [found |-> FALSE, contract |-> Null]
        ELSE [found |-> TRUE, contract |-> contract_map[last]]

\* row.get(col, []) or []
ListOrEmpty(v) == IF Truthy(v) THEN Iterate(v) ELSE <<>>

compute_risk_score(frame, r, contract_map) ==
    LET failed_fields   == ListOrEmpty(CellGet(frame, r, ColFailedFields))
        modified_fields == ListOrEmpty(CellGet(frame, r, ColModifiedFields))
        data_quality_risk ==
            SumWeights(failed_fields, FAILED_WEIGHTS, FAILED_DEFAULT)
            + SumWeights(modified_fields, MODIFIED_WEIGHTS, MODIFIED_DEFAULT)
        provider == CellGet(frame, r, ColProvider \o CleanSuffix)
        title    == CellGet(frame, r, ColContractTitle \o CleanSuffix)
        number   == CellGet(frame, r, ColContractNumber \o CleanSuffix)
        amount   == safe_float(CellGet(frame, r, ColInvoiceAmount \o CleanSuffix))
        inv_date == safe_date(CellGet(frame, r, ColInvoiceDate \o CleanSuffix))
        hit      == MapGet(contract_map, provider, title, number)
        expiry   == safe_date(hit.contract.expiry_date)
        contract_risk ==
            IF hit.found
            THEN IF ~IsNa(expiry) /\ ~IsNa(inv_date)
                 THEN IF After(inv_date, expiry)
                      THEN Weight(CONTRACT_WEIGHTS, <<"E","x","p","i","r","e","d">>)
                      ELSE IF DaysBetween(expiry, inv_date) \in 0..EXPIRING_DAYS
                      THEN Weight(CONTRACT_WEIGHTS,
                               <<"E","x","p","i","r","i","n","g","S","o","o","n">>)
                      ELSE 0
                 ELSE 0
            ELSE Weight(CONTRACT_WEIGHTS,
                     <<"C","o","n","t","r","a","c","t","M","i","s","m","a","t","c","h">>)
        financial_risk ==
            IF ~IsNa(amount)
            THEN IF FloatGT(amount, HIGH_AMOUNT_THRESHOLD)
                 THEN Weight(FINANCIAL_WEIGHTS, <<"H","i","g","h","A","m","o","u","n","t">>)
                 ELSE IF FloatLT(amount, LOW_AMOUNT_THRESHOLD)
                 THEN Weight(FINANCIAL_WEIGHTS, <<"L","o","w","A","m","o","u","n","t">>)
                 ELSE 0
            ELSE 0
    IN  [RiskScore       |-> data_quality_risk + contract_risk + financial_risk,
         DataQualityRisk |-> data_quality_risk,
         ContractRisk    |-> contract_risk,
         FinancialRisk   |-> financial_risk]

\* add_risk_scores with the score records joined in the reverse row order
add_risk_scores_reversed(frame, contracts) ==
    [frame |-> frame,
     risk  |-> [r \in DOMAIN frame.rows |->
                   compute_risk_score(frame, Len(frame.rows) + 1 - r,
                                      contract_map_of(contracts))]]

\* add_risk_scores: one score record per row, joined to the table's columns
add_risk_scores(frame, contracts) ==
    LET contract_map == contract_map_of(contracts)
    IN  [frame |-> frame,
         risk  |-> [r \in DOMAIN frame.rows |-> compute_risk_score(frame, r, contract_map)]]

---------------------------------------------------------------------------
(* etl.py: the steps of etl_pipeline *)

\* the text to_csv writes for a cell
ListStr(items) ==
    <<"[">> \o Join([i \in DOMAIN items |-> <<"'">> \o items[i] \o <<"'">>], <<",", " ">>)
    \o <<"]">>
CsvText(v) ==
    CASE v.t = "null" -> <<>>
      [] v.t = "list" -> ListStr(v.items)
      [] OTHER        -> PyStr(v)

\* the columns a step adds from the tuples a cleaner returned for each row
SetFlagAndClean(frame, field, results) ==
    SetCol(SetCol(frame, field \o FlagSuffix,
                  [r \in DOMAIN frame.rows |-> results[r].flag]),
           field \o CleanSuffix,
           [r \in DOMAIN frame.rows |-> results[r].value])

\* the exception of the first row whose cleaner raised, "" when none did
FirstExc(results) ==
    IF \A r \in DOMAIN results : results[r].exc = "" THEN ""
    ELSE results[CHOOSE r \in DOMAIN results :
                     results[r].exc # "" /\ \A q \in 1..(r - 1) : results[q].exc = ""].exc

\* ColsToKeep with the *_Flag columns kept as well
ColsToKeepWithFlags(frame) ==
    <<ColInvoiceID, ColFailedFields, ColModifiedFields>>
    \o SelectSeq(frame.columns,
                 LAMBDA c : EndsWith(c, CleanSuffix) \/ EndsWith(c, FlagSuffix))

\* cols_to_keep of step 4
ColsToKeep(frame) ==
    <<ColInvoiceID, ColFailedFields, ColModifiedFields>>
    \o SelectSeq(frame.columns, LAMBDA c : EndsWith(c, CleanSuffix))

\* to_csv(mode="a", header=False) on an existing file, to_csv(mode="w",
\* header=True) otherwise
CsvLines(frame) ==
    [r \in DOMAIN frame.rows |->
        [k \in DOMAIN frame.columns |-> CsvText(frame.rows[r][k])]]

WriteMaster(file, frame) ==
    IF file.exists THEN File(file.content \o CsvLines(frame))
    ELSE File(<<frame.columns>> \o CsvLines(frame))

---------------------------------------------------------------------------
(* The inputs of the model *)

\* the longest batch of rows the transaction file holds
MaxRows == 2

\* contracts.json as the scraper writes it: every field a text
RegOne   == << Contract(S(<<"A","b"," ","C","o">>), S(<<"T","1">>), S(<<"1","1">>), S(<<"2","0","2","5","-","0","6","-","3","0">>)) >>
RegTwo   == << Contract(S(<<"A","b"," ","C","o">>), S(<<"T","1">>), S(<<"1","1">>), S(<<"2","0","2","5","-","0","6","-","3","0">>)),
               Contract(S(<<"A","b"," ","C","o">>), S(<<"T","2">>), S(<<"1","2">>), S(<<"n","/","a">>)) >>
\* a registry with contracts whose provider is the empty text
RegBlank == << Contract(S(<<>>), S(<<"T","1">>), S(<<"1","1">>), S(<<"2","0","2","5","-","0","6","-","3","0">>)),
               Contract(S(<<"A","b"," ","C","o">>), S(<<"T","2">>), S(<<"1","2">>), S(<<"2","0","2","5","-","0","6","-","3","0">>)),
               Contract(S(<<>>), S(<<"T","2">>), S(<<"1","2">>), S(<<"2","0","2","5","-","0","6","-","3","0">>)) >>

\* a registry with a contract whose provider is missing (null), and with two
\* providers whose names differ in case only
RegNull  == << Contract(Null, S(<<"T","3">>), S(<<"1","3">>), S(<<"2","0","2","5","-","0","6","-","3","0">>)),
               Contract(S(<<"a","b"," ","c","o">>), S(<<"T","2">>), S(<<"1","2">>), S(<<"2","0","2","5","-","0","6","-","3","0">>)),
               Contract(S(<<"A","b"," ","C","o">>), S(<<"T","2">>), S(<<"1","2">>), S(<<"2","0","2","5","-","0","6","-","3","0">>)),
               Contract(S(<<"A","b"," ","C","o">>), S(<<"T","1">>), S(<<"1","1">>), S(<<"2","0","2","5","-","0","6","-","3","0">>)) >>

Registries == {NoFile, File(<<>>), File(RegOne), File(RegTwo), File(RegBlank), File(RegNull)}

\* raw cells: missing, blank, text, or a number
RawProviders == {Null, S(<<" ">>), S(<<"A","b"," ","C","o">>), S(<<"a","b"," ","c","o">>), S(<<" ","Z","q"," ">>), I(7)}
RawAmounts   == {Null, S(<<" ">>), S(<<"1",".","2","m">>), I(50)}
RawDates     == {Null, S(<<" ">>), S(<<"2","0","2","5","-","0","5","-","3","1">>), I(5)}
RawTitles    == {Null, S(<<" ">>), S(<<"T","1">>), S(<<"T","z">>), I(3)}
RawNumbers   == {Null, S(<<" ">>), S(<<"1","1">>), S(<<"9","9">>), I(12)}

RawRow(id, title, provider, amount, date, number) ==
    <<id, title, provider, amount, date, number>>

\* one-row batches: every provider, title and number around a plain amount
\* and date, and every amount and date around a plain provider, title and
\* number
FirstRows ==
    {RawRow(S(<<"I","N","V","1">>), t, p, S(<<"1",".","2","m">>), S(<<"2","0","2","5","-","0","5","-","3","1">>), n) :
        t \in RawTitles, p \in RawProviders, n \in RawNumbers}
    \cup {RawRow(S(<<"I","N","V","1">>), S(<<"T","1">>), S(<<"A","b"," ","C","o">>), a, d, S(<<"1","1">>)) :
        a \in RawAmounts, d \in RawDates}

\* the rows of the longer batches, whose ContractNumber column read_csv
\* types as numbers: a clean row, and a row with a wrong title and no date
FollowRows ==
    {RawRow(S(<<"I","N","V","2">>), S(<<"T","1">>), S(<<"A","b"," ","C","o">>), S(<<"1",".","2","m">>), S(<<"2","0","2","5","-","0","5","-","3","1">>), I(11)),
     RawRow(S(<<"I","N","V","3">>), S(<<"T","z">>), S(<<"a","b"," ","c","o">>), S(<<"5","0">>), Null, I(12))}

Batches ==
    {<<r>> : r \in FirstRows}
    \cup UNION {[1..k -> FollowRows] : k \in 2..MaxRows}

---------------------------------------------------------------------------
(* The run: etl_pipeline on one transaction file, then add_risk_scores on   *)
(* the table it returned                                                    *)

NoCall == [fn |-> ""]
NoRet  == [exc |-> "", none |-> TRUE]
NoRisk == <<>>

Init ==
    /\ pc = "load"
    /\ registry \in Registries
    /\ csv \in {File(b) : b \in Batches} \cup {NoFile}
    /\ index = <<>>
    /\ df = EmptyFrame
    /\ cleaned_subset = EmptyFrame
    /\ master = NoFile
    /\ scored = NoRisk
    /\ exc = ""
    /\ call = NoCall
    /\ ret = NoRet
    /\ runs = <<>>

\* a step that raised: the exception leaves etl_pipeline, nothing is returned
Fail(e) ==
    /\ pc' = "raised"
    /\ exc' = e
    /\ UNCHANGED <<registry, csv, cleaned_subset, master, scored, call, ret, runs>>

\* a step that went through
Goto(next) ==
    /\ pc' = next
    /\ UNCHANGED <<registry, csv, cleaned_subset, master, scored, exc, call, ret, runs>>

\* Step 1: load_csv_data_df, then get_provider_to_contracts_dict
SetIndex(got) ==
    IF got.exc # ""
    THEN index' = index /\ Fail(got.exc)
    ELSE index' = got.value /\ Goto("provider")

LoadData ==
    /\ pc = "load"
    /\ df' = load_csv_data_df(csv)
    /\ SetIndex(get_provider_to_contracts_dict(registry))

\* a cleaning step of Step 2: results[r] is the cleaner's tuple for row r.
\* An empty table has no column to read (KeyError); a cleaner that raises on
\* some row ends the run.
StoreResults(next, field, results, raised) ==
    IF raised # ""
    THEN df' = df /\ Fail(raised)
    ELSE df' = SetFlagAndClean(df, field, results) /\ Goto(next)

ApplyCleaner(next, field, results) ==
    StoreResults(next, field, results, FirstExc(results))

CleanColumn(next, field, results) ==
    /\ index' = index
    /\ IF ~HasCol(df, field)
       THEN df' = df /\ Fail("KeyError")
       ELSE ApplyCleaner(next, field, results)

CleanProviders ==
    /\ pc = "provider"
    /\ CleanColumn("amount", ColProvider,
           [r \in DOMAIN df.rows |->
               clean_provider(Cell(df, r, ColProvider), DictKeys(index))])

CleanAmounts ==
    /\ pc = "amount"
    /\ CleanColumn("date", ColInvoiceAmount,
           [r \in DOMAIN df.rows |->
               clean_invoice_amount(Cell(df, r, ColInvoiceAmount))])

CleanDates ==
    /\ pc = "date"
    /\ CleanColumn("title", ColInvoiceDate,
           [r \in DOMAIN df.rows |-> clean_date(Cell(df, r, ColInvoiceDate))])

CleanTitles ==
    /\ pc = "title"
    /\ CleanColumn("number", ColContractTitle,
           [r \in DOMAIN df.rows |->
               clean_title(Cell(df, r, ColProvider \o CleanSuffix),
                           Cell(df, r, ColContractTitle),
                           Cell(df, r, ColContractNumber), index)])

CleanNumbers ==
    /\ pc = "number"
    /\ CleanColumn("issue", ColContractNumber,
           [r \in DOMAIN df.rows |->
               clean_number(Cell(df, r, ColProvider \o CleanSuffix),
                            Cell(df, r, ColContractNumber),
                            Cell(df, r, ColContractTitle \o CleanSuffix), index)])

\* Step 3: record_issue
TrackIssues ==
    /\ pc = "issue"
    /\ df' = record_issue(df, ColFailedFields, ColModifiedFields)
    /\ index' = index
    /\ Goto("save")

\* Step 4: the cleaned columns are appended to the master file and returned
AppendCleaned ==
    /\ pc = "save"
    /\ cleaned_subset' = Project(df, ColsToKeep(df))
    /\ master' = WriteMaster(master, Project(df, ColsToKeep(df)))
    /\ runs' = Append(runs, CsvLines(Project(df, ColsToKeep(df))))
    /\ pc' = "cleaned"
    /\ UNCHANGED <<registry, csv, index, df, scored, exc, call, ret>>

\* risk_score.py: add_risk_scores on the returned table and the registry list
AddRiskScores ==
    /\ pc = "cleaned"
    /\ scored' = add_risk_scores(cleaned_subset, load_json_data_list(registry))
    /\ pc' = "scored"
    /\ UNCHANGED <<registry, csv, index, df, cleaned_subset, master, exc, call, ret, runs>>

Next ==
    \/ LoadData
    \/ CleanProviders
    \/ CleanAmounts
    \/ CleanDates
    \/ CleanTitles
    \/ CleanNumbers
    \/ TrackIssues
    \/ AppendCleaned
    \/ AddRiskScores

Spec == Init /\ [][Next]_vars

---------------------------------------------------------------------------
(* The calls: each function of etl.py and risk_score.py applied once to     *)
(* arguments drawn from the sets below                                      *)

\* the index of a registry that loads
IndexOf(reg) == get_provider_to_contracts_dict(File(reg)).value
Indexes == {IndexOf(RegOne), IndexOf(RegTwo), IndexOf(RegBlank), IndexOf(RegNull)}

CallProviders == RawProviders \cup {S(<<"A","b","C","o">>), S(<<"X","y"," ","(","A","U","S",")">>), S(<<"A","b"," ","C","o"," ","(","A","U",")">>),
                  S(<<>>), S(<<"a","b","c"," ","o">>), S(<<"a","b","x"," ","y">>), S(<<"a","b","c">>), S(<<"A","b","X","y","z","C","o">>),
                  S(<<"Z","q"," ","A","U","S","X">>), S(<<"V","i","c","t","o","r","i","a","n","Y","M","C","A">>)}
CallAmounts   == RawAmounts \cup {I(2000000), F(125, 10), S(<<" ","n","/","a"," ">>), S(<<"i","n","f">>), S(<<"$","1",",","2","3","4",".","5","0">>), S(<<"1",".","2","3","4",".","5","6","7",".","8","9">>), S(<<" ","1","2",".","5"," ">>), S(<<"1","2",".","5">>),
                  S(<<>>), S(<<" ","m"," ">>), S(<<"1",".","2",".","3","m">>), S(<<"1",".","2"," ","M","i","l","l","i","o","n">>), S(<<" ","2"," ","M","I","L">>), S(<<"-","5">>), S(<<"1",".","5",".">>), S(<<"0",".","0","0","0","0","1">>)}
CallDates     == RawDates \cup {S(<<" ","2","0","2","5","-","0","5","-","3","1"," ">>), S(<<"3","1","/","0","5","/","2","0","2","5">>), S(<<"0","1",",","0","1",",","2","0","2","5">>), S(<<"2","9","/","0","2","/","2","0","2","5">>), S(<<"n","/","a">>),
                  S(<<"0","1","/","0","2","/","2","0","2","5">>), S(<<"0","1","/","2","5","/","2","0","2","5">>), S(<<"0","1","-","J","a","n","-","2","0","2","5">>), S(<<"1"," ","J","a","n","u","a","r","y"," ","2","0","2","5">>), S(<<"J","a","n","u","a","r","y"," ","0","1",","," ","2","0","2","5">>), S(<<"2","5","-","0","1","-","0","1">>), S(<<"2","0","2","5","-","0","1","-","0","1">>), S(<<"0","1","/","0","1","/","2","0","2","5">>), S(<<"2","0","2","5","-","1","-","5">>), S(<<"3","1","-","0","4","-","2","0","2","5">>), S(<<"0","1"," ","0","1"," ","2","0","2","5">>)}
\* what clean_provider hands on: a missing value, a number, a trimmed text
CleanProviderValues == {Null, I(7), S(<<>>), S(<<"A","b"," ","C","o">>), S(<<"Z","q">>)}
CallTitles    == RawTitles \cup {S(<<"T","2">>)}
CallNumbers   == RawNumbers \cup {S(<<"1","2">>), S(<<" ","1","2"," ">>)}

\* a table with the identifier and the five flag columns, one row
FlagColumns ==
    <<ColInvoiceID, ColProvider \o FlagSuffix, ColInvoiceAmount \o FlagSuffix,
      ColInvoiceDate \o FlagSuffix, ColContractTitle \o FlagSuffix,
      ColContractNumber \o FlagSuffix>>
Flags == {Null, PyTrue, PyFalse}
FlagFrames ==
    {Frame(FlagColumns, << <<S(<<"I","N","V","1">>), p, a, d, t, n>> >>) :
        p \in Flags, a \in Flags, d \in Flags, t \in Flags, n \in Flags}

\* a table of the cleaned columns etl_pipeline returns, one row
CleanedColumns ==
    <<ColInvoiceID, ColFailedFields, ColModifiedFields, ColProvider \o CleanSuffix,
      ColInvoiceAmount \o CleanSuffix, ColInvoiceDate \o CleanSuffix,
      ColContractTitle \o CleanSuffix, ColContractNumber \o CleanSuffix>>
CleanedFrame(provider, amount, date, title, number) ==
    Frame(CleanedColumns,
          << <<S(<<"I","N","V","1">>), L(<<>>), L(<<>>), provider, amount, date, title, number>> >>)

ScoreProviders == {Null, S(<<>>), S(<<"A","b"," ","C","o">>)}
ScoreTitles    == {Null, S(<<"T","1">>), S(<<"T","2">>)}
ScoreNumbers   == {Null, I(11), S(<<"1","1">>), S(<<"1","2">>)}
ScoreAmounts   == {Null, F(2000000, 1), F(100000001, 100), F(1000000, 1), F(100, 1),
                   F(9999, 100), F(50, 1), S(<<"i","n","f">>), S(<<"n","/","a">>)}
ScoreDates     == {Null, S(<<"2","0","2","5","-","0","7","-","0","1">>), S(<<"2","0","2","5","-","0","6","-","3","0">>), S(<<"2","0","2","5","-","0","5","-","3","1">>), S(<<"2","0","2","5","-","0","4","-","0","1">>), S(<<"2","0","2","5","-","0","3","-","3","1">>), S(<<"n","/","a">>)}

\* every triple around a plain amount and date; every date under the two
\* contracts of one provider; every amount
ScoreFrames ==
    {CleanedFrame(p, F(500, 1), S(<<"2","0","2","5","-","0","5","-","3","1">>), t, n) :
        p \in ScoreProviders, t \in ScoreTitles, n \in ScoreNumbers}
    \cup {CleanedFrame(S(<<"A","b"," ","C","o">>), F(500, 1), d, S(<<"T","1">>), S(<<"1","1">>)) : d \in ScoreDates}
    \cup {CleanedFrame(S(<<"A","b"," ","C","o">>), F(500, 1), d, S(<<"T","2">>), S(<<"1","2">>)) : d \in ScoreDates}
    \cup {CleanedFrame(S(<<"A","b"," ","C","o">>), a, S(<<"2","0","2","5","-","0","1","-","0","1">>), S(<<"T","1">>), S(<<"1","1">>)) : a \in ScoreAmounts}

\* a cleaned row whose ledger holds the given lists
IssueFrame(failed, modified) ==
    Frame(CleanedColumns,
          << <<S(<<"I","N","V","1">>), failed, modified, S(<<"A","b"," ","C","o">>), F(500, 1), S(<<"2","0","2","5","-","0","5","-","3","1">>), S(<<"T","1">>), S(<<"1","1">>)>> >>)

\* field names of a ledger: the five record_issue writes, and names that
\* reach, or miss, the keys of the weight tables
LedgerNames ==
    {<<"P","r","o","v","i","d","e","r">>,
     <<"I","n","v","o","i","c","e","A","m","o","u","n","t">>,
     <<"I","n","v","o","i","c","e","D","a","t","e">>,
     <<"C","o","n","t","r","a","c","t","T","i","t","l","e">>,
     <<"C","o","n","t","r","a","c","t","N","u","m","b","e","r">>,
     <<"T","i","t","l","e">>,
     <<"N","u","m","b","e","r">>,
     <<"P","r","o","v","i","d","e","r","_","C","l","e","a","n">>,
     <<"t","i","t","l","e","_","F","l","a","g">>,
     <<"[">>}

\* a ledger with one field, unresolved or changed
IssueFrames ==
    {IssueFrame(L(<<f>>), L(<<>>)) : f \in LedgerNames}
    \cup {IssueFrame(L(<<>>), L(<<f>>)) : f \in LedgerNames}

ContractLists == {load_json_data_list(reg) : reg \in Registries}

Calls ==
    {[fn |-> "clean_provider", provider |-> p, correct_providers |-> DictKeys(d)] :
        p \in CallProviders, d \in Indexes}
    \cup {[fn |-> "clean_invoice_amount", amount |-> a] : a \in CallAmounts}
    \cup {[fn |-> "clean_date", date_str |-> d] : d \in CallDates}
    \cup {[fn |-> "clean_title", provider_clean |-> p, contract_title |-> t,
           contract_num |-> n, provider_to_contracts_dict |-> d] :
            p \in CleanProviderValues, t \in CallTitles, n \in CallNumbers,
            d \in Indexes}
    \cup {[fn |-> "clean_number", provider_clean |-> p, contract_number |-> n,
           title_clean |-> t, provider_to_contracts_dict |-> d] :
            p \in CleanProviderValues, t \in CallTitles, n \in CallNumbers,
            d \in Indexes}
    \cup {[fn |-> "record_issue", df |-> f] : f \in FlagFrames}
    \cup {[fn |-> "add_risk_scores", df |-> f, contracts |-> c] :
            f \in ScoreFrames \cup IssueFrames, c \in ContractLists}

InitCalls ==
    /\ pc = "call"
    /\ call \in Calls
    /\ ret = NoRet
    /\ registry = NoFile
    /\ csv = NoFile
    /\ index = <<>>
    /\ df = EmptyFrame
    /\ cleaned_subset = EmptyFrame
    /\ master = NoFile
    /\ scored = NoRisk
    /\ exc = ""
    /\ runs = <<>>

\* the call returns (or raises): ret holds what the caller gets
Return(result) ==
    /\ ret' = result
    /\ pc' = "returned"
    /\ UNCHANGED <<registry, csv, index, df, cleaned_subset, master, scored, exc, call, runs>>

CallCleanProvider ==
    /\ pc = "call" /\ call.fn = "clean_provider"
    /\ Return(clean_provider(call.provider, call.correct_providers))

CallCleanInvoiceAmount ==
    /\ pc = "call" /\ call.fn = "clean_invoice_amount"
    /\ Return(clean_invoice_amount(call.amount))

CallCleanDate ==
    /\ pc = "call" /\ call.fn = "clean_date"
    /\ Return(clean_date(call.date_str))

CallCleanTitle ==
    /\ pc = "call" /\ call.fn = "clean_title"
    /\ Return(clean_title(call.provider_clean, call.contract_title,
                          call.contract_num, call.provider_to_contracts_dict))

CallCleanNumber ==
    /\ pc = "call" /\ call.fn = "clean_number"
    /\ Return(clean_number(call.provider_clean, call.contract_number,
                           call.title_clean, call.provider_to_contracts_dict))

CallRecordIssue ==
    /\ pc = "call" /\ call.fn = "record_issue"
    /\ Return(Returned(record_issue(call.df, ColFailedFields, ColModifiedFields)))

CallAddRiskScores ==
    /\ pc = "call" /\ call.fn = "add_risk_scores"
    /\ Return(Returned(add_risk_scores(call.df, call.contracts)))

NextCalls ==
    \/ CallCleanProvider
    \/ CallCleanInvoiceAmount
    \/ CallCleanDate
    \/ CallCleanTitle
    \/ CallCleanNumber
    \/ CallRecordIssue
    \/ CallAddRiskScores

SpecCalls == InitCalls /\ [][NextCalls]_vars

---------------------------------------------------------------------------
(* The properties *)

\* the five cleaned fields, by the names record_issue writes
FieldNames ==
    <<ColProvider, ColInvoiceAmount, ColInvoiceDate, ColContractTitle, ColContractNumber>>

\* record_issue has run on the table of the pipeline
Finalized == pc \in {"save", "cleaned", "scored"}

FailedOf(frame, r)   == Cell(frame, r, ColFailedFields).items
ModifiedOf(frame, r) == Cell(frame, r, ColModifiedFields).items

\* the documented weight of a field the issue ledger names
DocumentedFailedWeight(f) ==
    CASE f = ColProvider       -> 5
      [] f = ColInvoiceAmount  -> 8
      [] f = ColInvoiceDate    -> 3
      [] f = ColContractTitle  -> 5
      [] f = ColContractNumber -> 5
      [] OTHER                 -> 5
DocumentedModifiedWeight(f) ==
    CASE f = ColProvider       -> 2
      [] f = ColInvoiceAmount  -> 4
      [] f = ColInvoiceDate    -> 1
      [] f = ColContractTitle  -> 2
      [] f = ColContractNumber -> 2
      [] OTHER                 -> 2

\* the documented weights of a list of fields, added up
RECURSIVE DocumentedSum(_, _)
DocumentedSum(fields, failed) ==
    IF fields = <<>> THEN 0
    ELSE (IF failed THEN DocumentedFailedWeight(Head(fields))
          ELSE DocumentedModifiedWeight(Head(fields)))
         + DocumentedSum(Tail(fields), failed)

\* C1: for every record the pipeline finalized and scored, DataQualityRisk is
\* the sum of the documented unresolved weights (provider 5, amount 8, date 3,
\* title 5, number 5) over FailedFields plus the sum of the documented changed
\* weights (2, 4, 1, 2, 2) over ModifiedFields, the fields named as
\* record_issue names them.
C1_DataQualityByDocumentedWeights ==
    pc = "scored" =>
        \A r \in DOMAIN scored.risk :
            scored.risk[r].DataQualityRisk =
                DocumentedSum(FailedOf(scored.frame, r), TRUE)
                + DocumentedSum(ModifiedOf(scored.frame, r), FALSE)

\* C2: after the five cleaning steps and record_issue every record has exactly
\* one flag column per field, holding None, True or False, and no field name
\* is in both FailedFields and ModifiedFields of a record.
C2_OneFlagPerFieldDisjointLists ==
    Finalized =>
        /\ \A k \in DOMAIN FieldNames :
              /\ Cardinality({i \in DOMAIN df.columns :
                                 df.columns[i] = FieldNames[k] \o FlagSuffix}) = 1
              /\ \A r \in DOMAIN df.rows :
                     Cell(df, r, FieldNames[k] \o FlagSuffix) \in {Null, PyTrue, PyFalse}
        /\ \A r \in DOMAIN df.rows :
              Range(FailedOf(df, r)) \cap Range(ModifiedOf(df, r)) = {}

\* a finalized table with a record that has an unresolved field, a changed
\* field and an unchanged field
C2_Witness ==
    /\ Finalized
    /\ \E r \in DOMAIN df.rows :
          /\ FailedOf(df, r) # <<>>
          /\ ModifiedOf(df, r) # <<>>
          /\ \E k \in DOMAIN FieldNames :
                 Cell(df, r, FieldNames[k] \o FlagSuffix) = PyFalse

\* C3: the two lists record_issue writes are a function of the flags alone:
\* FailedFields holds exactly the fields whose flag is None, ModifiedFields
\* exactly the fields whose flag is True, each once, and a field whose flag is
\* False is in neither.
C3_ListsFromFlags ==
    (pc = "returned" /\ call.fn = "record_issue") =>
        \A r \in DOMAIN ret.value.rows :
            LET failed   == FailedOf(ret.value, r)
                modified == ModifiedOf(ret.value, r)
                FlagOf(f) == Cell(call.df, r, f \o FlagSuffix)
            IN  /\ Range(failed) = {f \in Range(FieldNames) : FlagOf(f) = Null}
                /\ Range(modified) = {f \in Range(FieldNames) : FlagOf(f) = PyTrue}
                /\ Len(failed) = Cardinality(Range(failed))
                /\ Len(modified) = Cardinality(Range(modified))

\* record_issue has returned for a record with flags of all three kinds
C3_Witness ==
    /\ pc = "returned" /\ call.fn = "record_issue"
    /\ \E r \in DOMAIN ret.value.rows :
          /\ Cell(call.df, r, ColProvider \o FlagSuffix) = Null
          /\ Cell(call.df, r, ColInvoiceAmount \o FlagSuffix) = PyTrue
          /\ Cell(call.df, r, ColInvoiceDate \o FlagSuffix) = PyFalse
          /\ ColProvider \in Range(FailedOf(ret.value, r))
          /\ ColInvoiceAmount \in Range(ModifiedOf(ret.value, r))

\* the contracts the index holds for a provider, [] when it holds none
ContractsOf(d, provider) ==
    IF DictHas(d, provider) THEN DictGet(d, provider).items ELSE <<>>

\* C4: clean_number is clean_title's cascade with title and number exchanged,
\* looked up under the cleaned provider: a blank number with the provider
\* absent is unresolved; a raw number that is one of the provider's registry
\* numbers is resolved-unchanged; otherwise, the cleaned title being
\* non-blank, a provider with one contract yields that contract's number as
\* resolved-changed, and a provider with several yields the number of the
\* contract whose title is the cleaned title (unresolved if none).
C4_NumberCascadeUnderProvider ==
    (pc = "returned" /\ call.fn = "clean_number") =>
        LET d      == call.provider_to_contracts_dict
            number == call.contract_number
            list   == ContractsOf(d, call.provider_clean)
            valid  == InValues(number, NumbersOf(list))
            byTitle == {i \in DOMAIN list :
                           PyEq(list[i].contract_title, call.title_clean)}
        IN  /\ ret.exc = ""
            /\ (Blank(number) /\ list = <<>>) =>
                   (ret.flag = Null /\ ret.value = number)
            /\ valid => (ret.flag = PyFalse /\ ret.value = number)
            /\ (~valid /\ ~Blank(call.title_clean) /\ Len(list) = 1) =>
                   (ret.flag = PyTrue /\ ret.value = list[1].contract_number)
            /\ (~valid /\ ~Blank(call.title_clean) /\ Len(list) > 1) =>
                   IF byTitle = {} THEN ret.flag = Null /\ ret.value = number
                   ELSE /\ ret.flag = PyTrue
                        /\ \E i \in byTitle : ret.value = list[i].contract_number

\* C5: with no provider literally named "" in the index, clean_number leaves
\* every record's contract number unresolved with its raw value, whatever the
\* provider, number and title, and ContractNumber is in FailedFields of every
\* record the pipeline finalizes.
C5_NumberNeverResolved ==
    (pc \in {"issue", "save", "cleaned", "scored"} /\ ~DictHas(index, S(<<>>))) =>
        \A r \in DOMAIN df.rows :
            /\ Cell(df, r, ColContractNumber \o FlagSuffix) = Null
            /\ Cell(df, r, ColContractNumber \o CleanSuffix) = Cell(df, r, ColContractNumber)
            /\ Finalized => ColContractNumber \in Range(FailedOf(df, r))

\* a finalized record whose raw number is a registry number of its cleaned
\* provider, in an index without the key ""
C5_Witness ==
    /\ Finalized
    /\ ~DictHas(index, S(<<>>))
    /\ \E r \in DOMAIN df.rows :
          /\ InValues(Cell(df, r, ColContractNumber),
                      NumbersOf(ContractsOf(index,
                                            Cell(df, r, ColProvider \o CleanSuffix))))
          /\ ColContractNumber \in Range(FailedOf(df, r))

\* the index could not be built or the transaction file could not be read
LoadFailed == ~csv.exists \/ get_provider_to_contracts_dict(registry).exc # ""

\* C6: whatever the five raw fields of a record are - missing, blank, text or
\* a number - the cleaners return a pair without raising, so once the data is
\* loaded no record halts the batch.
C6_NoRecordHaltsBatch == pc = "raised" => LoadFailed

\* the raw value a cleaner was called on
RawArgument ==
    CASE call.fn = "clean_provider"       -> call.provider
      [] call.fn = "clean_invoice_amount" -> call.amount
      [] call.fn = "clean_date"           -> call.date_str
      [] call.fn = "clean_title"          -> call.contract_title
      [] call.fn = "clean_number"         -> call.contract_number

Cleaners ==
    {"clean_provider", "clean_invoice_amount", "clean_date", "clean_title",
     "clean_number"}

\* C7: whenever a cleaner returns the unresolved flag, the value it returns is
\* the raw input exactly as given, not a trimmed or altered copy.
C7_UnresolvedKeepsRawValue ==
    (pc = "returned" /\ call.fn \in Cleaners /\ ret.exc = "" /\ ret.flag = Null) =>
        ret.value = RawArgument

\* add_risk_scores has returned
Scored == pc = "returned" /\ call.fn = "add_risk_scores"

\* the contracts of a list whose (provider, title, number) is that of row r
TripleMatches(contracts, frame, r) ==
    {i \in DOMAIN contracts :
        KeyEq(contracts[i], Cell(frame, r, ColProvider \o CleanSuffix),
              Cell(frame, r, ColContractTitle \o CleanSuffix),
              Cell(frame, r, ColContractNumber \o CleanSuffix))}

\* of those, the contracts whose provider and title are both non-empty
UsableMatches(contracts, frame, r) ==
    {i \in TripleMatches(contracts, frame, r) :
        Truthy(contracts[i].service_provider) /\ Truthy(contracts[i].contract_title)}

\* C8 as stated: ContractRisk is 10 exactly when the record's cleaned
\* (provider, title, number) is the triple of no contract of the registry
\* given to add_risk_scores, and nothing is raised.
C8_MismatchIffNoRegistryTriple ==
    Scored =>
        /\ ret.exc = ""
        /\ \A r \in DOMAIN ret.value.risk :
               (ret.value.risk[r].ContractRisk = 10)
                   <=> (TripleMatches(call.contracts, call.df, r) = {})

\* C8 amended: ContractRisk is 10 exactly when the record's cleaned triple is
\* the triple of no registry contract whose provider and title are both
\* non-empty, and nothing is raised.
C8_MismatchIffNoUsableRegistryTriple ==
    Scored =>
        /\ ret.exc = ""
        /\ \A r \in DOMAIN ret.value.risk :
               (ret.value.risk[r].ContractRisk = 10)
                   <=> (UsableMatches(call.contracts, call.df, r) = {})

\* a record whose triple is that of a registry contract with an empty
\* provider, scored as a mismatch
C8_Witness ==
    /\ Scored
    /\ \E r \in DOMAIN ret.value.risk :
          /\ TripleMatches(call.contracts, call.df, r) # {}
          /\ UsableMatches(call.contracts, call.df, r) = {}
          /\ ret.value.risk[r].ContractRisk = 10

\* the contract the lookup finds: of the usable matches the last in the list
MatchedContract(contracts, frame, r) ==
    contracts[CHOOSE i \in UsableMatches(contracts, frame, r) :
                  \A j \in UsableMatches(contracts, frame, r) : j <= i]

\* the documented score of a matched record, from its two dates
ExpiryScore(expiry, inv_date) ==
    IF expiry = Null \/ inv_date = Null THEN 0
    ELSE IF inv_date.day > expiry.day THEN 15
    ELSE IF expiry.day - inv_date.day <= 90 THEN 5
    ELSE 0

\* C9: for a record whose triple matches a registry contract, ContractRisk is
\* 15 when the invoice date is after the expiry date, 5 when it is 0 to 90
\* days before it (both ends included), 0 when it is more than 90 days
\* before it, and 0 when either date does not parse.
C9_ExpiryWindow ==
    Scored =>
        \A r \in DOMAIN ret.value.risk :
            UsableMatches(call.contracts, call.df, r) # {} =>
                ret.value.risk[r].ContractRisk =
                    ExpiryScore(
                        safe_date(MatchedContract(call.contracts, call.df, r).expiry_date),
                        safe_date(Cell(call.df, r, ColInvoiceDate \o CleanSuffix)))

\* a matched record dated exactly 90 days before its contract expires, scored 5
C9_Witness ==
    /\ Scored
    /\ \E r \in DOMAIN ret.value.risk :
          /\ UsableMatches(call.contracts, call.df, r) # {}
          /\ Cell(call.df, r, ColInvoiceDate \o CleanSuffix) = S(<<"2","0","2","5","-","0","4","-","0","1">>)
          /\ MatchedContract(call.contracts, call.df, r).expiry_date = S(<<"2","0","2","5","-","0","6","-","3","0">>)
          /\ ret.value.risk[r].ContractRisk = 5

\* the documented score of an amount: x is float(amount), or None when the
\* amount is missing or is no number
AmountScore(x) ==
    IF x = Null THEN 0
    ELSE IF x.d = 0 THEN (IF x.n > 0 THEN 10 ELSE 7)
    ELSE IF x.n > 1000000 * x.d THEN 10
    ELSE IF x.n < 100 * x.d THEN 7
    ELSE 0

\* C10: FinancialRisk is 10 when the cleaned amount is a number greater than
\* 1,000,000, 7 when it is a number less than 100, and 0 otherwise: at exactly
\* 1,000,000, at exactly 100, and when the amount is missing or is no number.
C10_FinancialBands ==
    Scored =>
        \A r \in DOMAIN ret.value.risk :
            ret.value.risk[r].FinancialRisk =
                AmountScore(safe_float(Cell(call.df, r, ColInvoiceAmount \o CleanSuffix)))

\* a record whose amount is exactly 1,000,000, scored 0
C10_Witness ==
    /\ Scored
    /\ \E r \in DOMAIN ret.value.risk :
          /\ Cell(call.df, r, ColInvoiceAmount \o CleanSuffix) = F(1000000, 1)
          /\ ret.value.risk[r].FinancialRisk = 0

---------------------------------------------------------------------------
\* the four score fields compute_risk_score returns
ScoreFields == {"RiskScore", "DataQualityRisk", "ContractRisk", "FinancialRisk"}

\* the table of the one row r of a table
RowFrame(frame, r) == Frame(frame.columns, <<frame.rows[r]>>)

\* C11: for every record the three sub-scores are non-negative and RiskScore
\* is their plain sum; add_risk_scores returns one row per input row, in the
\* input's order, each carrying the input's columns and the four score
\* fields (row r of the output is scored as row r of the input alone is).
C11_ScoresSumRowByRow ==
    pc = "scored" =>
        /\ scored.frame = cleaned_subset
        /\ DOMAIN scored.risk = DOMAIN cleaned_subset.rows
        /\ \A r \in DOMAIN scored.risk :
               /\ DOMAIN scored.risk[r] = ScoreFields
               /\ scored.risk[r].DataQualityRisk \in Nat
               /\ scored.risk[r].ContractRisk \in Nat
               /\ scored.risk[r].FinancialRisk \in Nat
               /\ scored.risk[r].RiskScore =
                      scored.risk[r].DataQualityRisk + scored.risk[r].ContractRisk
                      + scored.risk[r].FinancialRisk
               /\ scored.risk[r] =
                      add_risk_scores(RowFrame(cleaned_subset, r),
                                      load_json_data_list(registry)).risk[1]

\* a batch of two rows scored differently, each sub-score of the second
\* positive
C11_Witness ==
    /\ pc = "scored"
    /\ Len(scored.risk) = 2
    /\ scored.risk[1].RiskScore < scored.risk[2].RiskScore
    /\ scored.risk[2].DataQualityRisk > 0
    /\ scored.risk[2].ContractRisk > 0
    /\ scored.risk[2].FinancialRisk > 0

\* add_risk_scores has returned for a ledger whose one field is unresolved
FailedAlone(f) == Scored /\ call.df = IssueFrame(L(<<f>>), L(<<>>))

\* C12: for every field name of a ledger, the names that fall through to the
\* default weight included, the data-quality cost of the field in FailedFields
\* is strictly greater than its cost in ModifiedFields.
C12_FailedCostsMoreThanModified ==
    \A f \in LedgerNames :
        FailedAlone(f) =>
            ret.value.risk[1].DataQualityRisk >
                add_risk_scores(IssueFrame(L(<<>>), L(<<f>>)), call.contracts)
                    .risk[1].DataQualityRisk

\* a name that falls through to the defaults, scored as unresolved
C12_Witness ==
    /\ FailedAlone(<<"I","n","v","o","i","c","e","A","m","o","u","n","t">>)
    /\ ret.value.risk[1].DataQualityRisk = FAILED_DEFAULT
    /\ ~WeightHas(FAILED_WEIGHTS, BaseName(<<"I","n","v","o","i","c","e","A","m","o","u","n","t">>))

---------------------------------------------------------------------------
\* clean_title has returned or raised
TitleCalled == pc = "returned" /\ call.fn = "clean_title"

\* the contracts the index holds for the cleaned provider of the call
CallContracts == ContractsOf(call.provider_to_contracts_dict, call.provider_clean)

\* the raw title of the call is the title of one of those contracts
TitleKnown == \E i \in DOMAIN CallContracts : CallContracts[i].contract_title = call.contract_title

\* the result is unresolved
Unresolved == ret.exc = "" /\ ret.flag = Null

\* C13: with a provider that has exactly one contract in the index, a raw
\* title that is missing or is not that contract's title, and a non-blank raw
\* contract number, clean_title returns (resolved-changed, that contract's
\* title), whatever the number.
C13_SingleContractTitle ==
    (/\ TitleCalled
     /\ Len(CallContracts) = 1
     /\ ~TitleKnown
     /\ ~Blank(call.contract_num)) =>
        ret = Tuple(PyTrue, CallContracts[1].contract_title)

\* the one contract's title returned for a number that is no contract's
C13_Witness ==
    /\ TitleCalled
    /\ Len(CallContracts) = 1
    /\ call.contract_title = Null
    /\ call.contract_num = S(<<"9","9">>)
    /\ ret = Tuple(PyTrue, S(<<"T","1">>))

\* the raw contract number as text, trimmed
TrimmedNumber(n) == IF IsNa(n) THEN <<>> ELSE Strip(PyStr(n))

\* the contracts of the call whose number, as text, is the trimmed raw number
NumberMatches ==
    {i \in DOMAIN CallContracts :
        PyStr(CallContracts[i].contract_number) = TrimmedNumber(call.contract_num)}

\* C14: with a provider that has two or more contracts in the index and a raw
\* title that is none of that provider's titles, clean_title returns
\* (resolved-changed, T), T the title of the first contract in index order
\* whose number as text equals the trimmed raw contract number, and unresolved
\* if the provider has no such contract.
C14_TitleByNumberScan ==
    (/\ TitleCalled
     /\ Len(CallContracts) >= 2
     /\ ~TitleKnown) =>
        IF NumberMatches # {}
        THEN ret = Tuple(PyTrue, CallContracts[FirstOf(NumberMatches)].contract_title)
        ELSE Unresolved

\* C15: clean_title returns unresolved whenever the cleaned provider has no
\* entry in the index, and whenever the raw title is none of the provider's
\* titles and the raw contract number is blank or missing; it returns
\* (resolved-unchanged, raw title) whenever the raw title is one of the
\* provider's titles, whatever the contract number.
C15_TitleGuards ==
    TitleCalled =>
        /\ ~DictHas(call.provider_to_contracts_dict, call.provider_clean) => Unresolved
        /\ (~TitleKnown /\ Blank(call.contract_num)) => Unresolved
        /\ TitleKnown => ret = Tuple(PyFalse, call.contract_title)

\* a provider with one contract, a wrong title and no number: unresolved
C15_Witness ==
    /\ TitleCalled
    /\ Len(CallContracts) = 1
    /\ call.contract_title = S(<<"T","z">>)
    /\ call.contract_num = Null
    /\ Unresolved

---------------------------------------------------------------------------
\* clean_provider has returned
ProviderCalled == pc = "returned" /\ call.fn = "clean_provider"

\* the trimmed input of the call, and the best registry name for it and for
\* its normalized form
TrimmedProvider == Strip(call.provider.s)
StrictBest  == extractOne(TrimmedProvider, call.correct_providers)
LenientBest == extractOne(Normalized(TrimmedProvider), call.correct_providers)

\* an accepted match: resolved-unchanged when it is the trimmed input as
\* written, resolved-changed otherwise
Accepted(best) ==
    IF best.match = S(TrimmedProvider) THEN ret = Tuple(PyFalse, S(TrimmedProvider))
    ELSE ret = Tuple(PyTrue, best.match)

\* C16: on a non-empty text clean_provider accepts the best token-set match
\* of the trimmed input if it scores at least 80; only otherwise it accepts
\* the best match of the normalized input, if that scores strictly more than
\* 60; if neither pass accepts, or the input is empty or no text, the result
\* is unresolved.  80 is accepted by the strict pass, 60 rejected by the
\* lenient pass.
C16_TwoPassThresholds ==
    ProviderCalled =>
        IF ~IsStr(call.provider) \/ call.provider = S(<<>>) THEN Unresolved
        ELSE IF StrictBest.found /\ StrictBest.score >= 80 THEN Accepted(StrictBest)
        ELSE IF LenientBest.found /\ LenientBest.score > 60 THEN Accepted(LenientBest)
        ELSE Unresolved

\* an input whose best match scores exactly 80, accepted by the strict pass
C16_Witness ==
    /\ ProviderCalled
    /\ call.provider = S(<<"a","b","c"," ","o">>)
    /\ StrictBest.score = 80
    /\ ret = Tuple(PyTrue, S(<<"A","b"," ","C","o">>))

---------------------------------------------------------------------------
\* clean_invoice_amount has returned
AmountCalled == pc = "returned" /\ call.fn = "clean_invoice_amount"

\* the call's amount is a text with a millions marker: an m in either case
HasMarker == IsStr(call.amount) /\ Contains(Lower(call.amount.s), "m")

\* what is left of the text of the call with every character that is neither
\* a digit nor a dot removed (the letters of a marker among them)
Remainder == SelectSeq(call.amount.s, LAMBDA c : IsDigit(c) \/ c = ".")

\* the returned value is the float x times k
IsProduct(x, k) ==
    /\ IsNum(ret.value)
    /\ ret.value.d # 0
    /\ ret.value.n * x.d = x.n * k * ret.value.d

\* C17: on a text with a millions marker the marker and every character that
\* is neither a digit nor a dot are removed; if the remainder parses as a
\* decimal d the result is (resolved-changed, d x 1,000,000), and if it does
\* not the result is unresolved with the original string.  A missing or empty
\* amount is unresolved with the original value.
C17_MillionsShorthand ==
    AmountCalled =>
        /\ HasMarker =>
               IF ParseFloat(Remainder).ok
               THEN /\ ret.exc = "" /\ ret.flag = PyTrue
                    /\ IsProduct(ParseFloat(Remainder).v, 1000000)
               ELSE ret = Tuple(Null, call.amount)
        /\ (IsNa(call.amount) \/ call.amount = S(<<>>)) => ret = Tuple(Null, call.amount)

\* the text of the call trimmed
TrimmedAmount == Strip(call.amount.s)

\* a text with every dot but the last dropped
FirstDot(s) == CHOOSE i \in DOMAIN s : s[i] = "." /\ \A j \in 1..(i - 1) : s[j] # "."
RECURSIVE LastDotOnly(_)
LastDotOnly(s) ==
    IF Count(s, ".") <= 1 THEN s
    ELSE SubSeq(s, 1, FirstDot(s) - 1) \o LastDotOnly(Drop(s, FirstDot(s)))

\* C18: on a text with no millions marker every character that is neither a
\* digit nor a dot is removed and, if more than one dot remains, all dots but
\* the last are dropped; the remainder is parsed as a decimal.  The flag is
\* resolved-changed exactly when the stripped text differs from the trimmed
\* original and resolved-unchanged when it is identical; a remainder that
\* does not parse is unresolved.
C18_PlainAmount ==
    (AmountCalled /\ IsStr(call.amount) /\ ~HasMarker) =>
        IF ParseFloat(LastDotOnly(Remainder)).ok
        THEN ret = Tuple(Bool(LastDotOnly(Remainder) # TrimmedAmount),
                         ParseFloat(LastDotOnly(Remainder)).v)
        ELSE Unresolved

\* 1.234.567.89 read as 1234567.89
C18_Witness ==
    /\ AmountCalled
    /\ call.amount = S(<<"1",".","2","3","4",".","5","6","7",".","8","9">>)
    /\ ret = Tuple(PyTrue, F(123456789, 100))

---------------------------------------------------------------------------
\* clean_date has returned
DateCalled == pc = "returned" /\ call.fn = "clean_date"

\* the documented order of the patterns: ISO year-month-day, day-month-year,
\* month-day-year, day-abbreviated month-year, day-full month-year, full
\* month-day-year, two-digit year-month-day
PatternOrder ==
    << <<"Y", "m", "d">>, <<"d", "m", "Y">>, <<"m", "d", "Y">>, <<"d", "b", "Y">>,
       <<"d", "B", "Y">>, <<"B", "d", "Y">>, <<"y", "m", "d">> >>

\* the trimmed text of the call, and the same with its separators normalized:
\* commas deleted, slashes and spaces made dashes
TrimmedDate == Strip(call.date_str.s)
Separated ==
    LET kept == SelectSeq(TrimmedDate, LAMBDA c : c # ",")
    IN  [i \in DOMAIN kept |-> IF kept[i] \in {"/", " "} THEN "-" ELSE kept[i]]

\* the patterns that parse the text of the call, and the date the first reads
Parsing == {k \in DOMAIN PatternOrder : strptime(Separated, PatternOrder[k]).ok}
FirstRead == strptime(Separated, PatternOrder[FirstOf(Parsing)])
FirstIso == IsoDate(FirstRead.y, FirstRead.m, FirstRead.d)

\* C19: clean_date tries its patterns on the separator-normalized text in the
\* documented order and returns the ISO form of the first that parses (an
\* input valid day-first and month-first is read day-first); the flag is
\* resolved-unchanged exactly when the ISO result is the trimmed input as
\* written and resolved-changed otherwise; a missing, blank or non-text
\* input, or one no pattern parses, is unresolved.
C19_FirstPatternWins ==
    DateCalled =>
        /\ IF ~IsStr(call.date_str) THEN Unresolved
           ELSE IF TrimmedDate = <<>> \/ Parsing = {} THEN Unresolved
           ELSE ret = Tuple(Bool(FirstIso # TrimmedDate), S(FirstIso))
        /\ call.date_str = S(<<"2","0","2","5","-","0","1","-","0","1">>) => ret = Tuple(PyFalse, S(<<"2","0","2","5","-","0","1","-","0","1">>))
        /\ call.date_str = S(<<"0","1","/","0","1","/","2","0","2","5">>) => ret = Tuple(PyTrue, S(<<"2","0","2","5","-","0","1","-","0","1">>))

\* 01/02/2025, valid day-first and month-first, read as the 1st of February
C19_Witness ==
    /\ DateCalled
    /\ call.date_str = S(<<"0","1","/","0","2","/","2","0","2","5">>)
    /\ {2, 3} \subseteq Parsing
    /\ ret = Tuple(PyTrue, S(<<"2","0","2","5","-","0","2","-","0","1">>))

---------------------------------------------------------------------------
\* the call resolved: it returned a flag that is not None
Resolved == ret.exc = "" /\ ret.flag # Null

\* C20: the Date and Amount normalizers are idempotent: whenever clean_date
\* (clean_invoice_amount) resolves a raw input to a cleaned value v, the same
\* normalizer applied to v returns (resolved-unchanged, v).
C20_NormalizersIdempotent ==
    /\ (DateCalled /\ Resolved) => clean_date(ret.value) = Tuple(PyFalse, ret.value)
    /\ (AmountCalled /\ Resolved) =>
           clean_invoice_amount(ret.value) = Tuple(PyFalse, ret.value)

---------------------------------------------------------------------------
\* the registry file is missing, or holds no contract
EmptyRegistry == registry = NoFile \/ registry = File(<<>>)

\* the flags of the three registry-backed fields of row r
RegistryFlags(r) ==
    {Cell(df, r, ColProvider \o FlagSuffix), Cell(df, r, ColContractTitle \o FlagSuffix),
     Cell(df, r, ColContractNumber \o FlagSuffix)}

\* C21: with an empty or missing contract registry the index is built empty
\* and nothing raises; clean_provider, clean_title and clean_number return
\* unresolved for every record, and every record is scored as a contract
\* mismatch.
C21_EmptyRegistryDegrades ==
    (EmptyRegistry /\ csv.exists) =>
        /\ pc # "raised"
        /\ pc # "load" => index = <<>>
        /\ Finalized => \A r \in DOMAIN df.rows : RegistryFlags(r) = {Null}
        /\ pc = "scored" => \A r \in DOMAIN scored.risk : scored.risk[r].ContractRisk = 10


\* C22: when the transaction file is absent or unreadable etl_pipeline does
\* not raise: it ends before any record is processed and returns an empty
\* result, with no per-record outcome.
C22_MissingSourceReturnsEmpty ==
    (csv = NoFile /\ ~EmptyRegistry) =>
        /\ pc # "raised"
        /\ df.rows = <<>>
        /\ pc \in {"cleaned", "scored"} => cleaned_subset.rows = <<>>


---------------------------------------------------------------------------
\* etl_pipeline has returned its table and written the master file
Persisted == pc \in {"cleaned", "scored"}

\* the columns of the five cleaned values and of the five outcome flags
CleanColumns == {FieldNames[k] \o CleanSuffix : k \in DOMAIN FieldNames}
FlagColumnSet == {FieldNames[k] \o FlagSuffix : k \in DOMAIN FieldNames}
LedgerColumns == {ColFailedFields, ColModifiedFields}

\* C23 as stated: the record etl_pipeline returns and persists carries twelve
\* items: the five cleaned values, the five outcome flags and the two ledger
\* lists.
C23_TwelveItemRecord ==
    Persisted =>
        /\ CleanColumns \cup FlagColumnSet \cup LedgerColumns \subseteq Range(cleaned_subset.columns)
        /\ CleanColumns \cup FlagColumnSet \cup LedgerColumns \subseteq Range(master.content[1])

\* C23: the record etl_pipeline returns and persists carries eight items, the
\* invoice identifier, the two ledger lists and the five cleaned values, in
\* that order; none of the five outcome flags is among them.
C23_EightItemRecord ==
    Persisted =>
        /\ cleaned_subset.columns =
               <<ColInvoiceID, ColFailedFields, ColModifiedFields>>
               \o [k \in DOMAIN FieldNames |-> FieldNames[k] \o CleanSuffix]
        /\ master.content[1] = cleaned_subset.columns
        /\ Range(cleaned_subset.columns) \cap FlagColumnSet = {}
        /\ Len(master.content) = 1 + Len(cleaned_subset.rows)
        /\ \A r \in DOMAIN cleaned_subset.rows :
               /\ Len(cleaned_subset.rows[r]) = 8
               /\ Len(master.content[r + 1]) = 8

\* a returned batch of two records whose table had all five flag columns
C23_Witness ==
    /\ Persisted
    /\ Len(cleaned_subset.rows) = 2
    /\ FlagColumnSet \subseteq Range(df.columns)
    /\ Len(cleaned_subset.columns) = 8


---------------------------------------------------------------------------
\* the index has been built from a registry that holds contracts
IndexBuilt == pc \notin {"load", "raised"} /\ registry.exists

\* the registry as load_json_data_df reads it
RegistryRows == load_json_data_df(registry)

\* the positions of the registry contracts whose provider is the value k
RowsOf(k) == {j \in DOMAIN RegistryRows : RegistryRows[j].service_provider = k}

\* the m-th smallest member of a set of positions
Nth(set, m) == CHOOSE j \in set : Cardinality({q \in set : q < j}) = m - 1

\* the list under key i of the index is the {title, number} pairs of exactly
\* the registry contracts of that provider, in registry order
GroupInOrder(i) ==
    /\ Len(index[i].val.items) = Cardinality(RowsOf(index[i].key))
    /\ \A m \in DOMAIN index[i].val.items :
           index[i].val.items[m] =
               [contract_title  |-> RegistryRows[Nth(RowsOf(index[i].key), m)].contract_title,
                contract_number |-> RegistryRows[Nth(RowsOf(index[i].key), m)].contract_number]

\* the entries of the index, each a key position and a position in its list
IndexEntries == {<<i, m>> \in (DOMAIN index) \X (1..Len(RegistryRows)) :
                    m \in DOMAIN index[i].val.items}

\* C24 as stated: each provider key maps to the {title, number} pairs of
\* exactly the registry contracts with that provider, in registry order; no
\* key maps to an empty list; every registry contract appears under exactly
\* one key exactly once.
C24_EveryContractIndexed ==
    IndexBuilt =>
        /\ \A i, j \in DOMAIN index : index[i].key = index[j].key => i = j
        /\ \A i \in DOMAIN index : GroupInOrder(i) /\ index[i].val.items # <<>>
        /\ \A j \in DOMAIN RegistryRows : \E i \in DOMAIN index : j \in RowsOf(index[i].key)
        /\ Cardinality(IndexEntries) = Len(RegistryRows)

\* C24: the same for the registry contracts that name a provider; a contract
\* whose provider is missing appears under no key.
C24_NamedContractsIndexed ==
    IndexBuilt =>
        /\ \A i, j \in DOMAIN index : index[i].key = index[j].key => i = j
        /\ \A i \in DOMAIN index :
               IsStr(index[i].key) /\ GroupInOrder(i) /\ index[i].val.items # <<>>
        /\ \A j \in DOMAIN RegistryRows :
               IsStr(RegistryRows[j].service_provider) <=>
                   \E i \in DOMAIN index : j \in RowsOf(index[i].key)
        /\ Cardinality(IndexEntries) =
               Cardinality({j \in DOMAIN RegistryRows : IsStr(RegistryRows[j].service_provider)})

\* an index with two keys that differ in case only, one of them with two
\* contracts, built from a registry with a contract of no provider
C24_Witness ==
    /\ IndexBuilt
    /\ \E j \in DOMAIN RegistryRows : RegistryRows[j].service_provider = Null
    /\ Len(index) = 2
    /\ \E i \in DOMAIN index : Len(index[i].val.items) = 2


---------------------------------------------------------------------------
\* the lenient pass of clean_provider ran: the input is a non-empty text and
\* the strict pass did not accept
LenientRan ==
    /\ ProviderCalled
    /\ IsStr(call.provider) /\ call.provider # S(<<>>)
    /\ ~(StrictBest.found /\ StrictBest.score >= 80)

\* the suffix tokens, parentheses included
SuffixTokens == << <<"(", "A", "U", "S", ")">>, <<"(", "A", "U", ")">> >>

\* the documented normalization of a trimmed input: a space before every
\* upper-case letter that follows a lower-case letter, the suffix tokens
\* removed in full, surrounding whitespace trimmed
DocumentedNormalized(original) ==
    Strip(RemoveAlternatives(Strip(SplitCamel(original, 1)), SuffixTokens))

\* C25: the normalization of the lenient pass inserts a space before every
\* upper-case letter that directly follows a lower-case letter, removes the
\* suffix tokens "(AU)" and "(AUS)" in full, and trims surrounding
\* whitespace; no other character is removed or altered (a name that merely
\* contains the letters AUS keeps them).
C25_NormalizationThreeWays ==
    LenientRan => Normalized(TrimmedProvider) = DocumentedNormalized(TrimmedProvider)


---------------------------------------------------------------------------
\* the trimmed text of the call with every comma and space written as a slash
SlashForm ==
    [i \in DOMAIN TrimmedDate |->
        IF TrimmedDate[i] \in {",", " "} THEN "/" ELSE TrimmedDate[i]]

\* C26: commas, slashes and spaces are alike field separators for clean_date:
\* a date written with commas or spaces between its components gives the
\* cleaned ISO date, and a resolved flag, that the same date written with
\* slashes gives.
C26_SeparatorsAlike ==
    (/\ DateCalled
     /\ IsStr(call.date_str) /\ TrimmedDate # <<>>
     /\ clean_date(S(SlashForm)).flag # Null) =>
        /\ Resolved
        /\ ret.value = clean_date(S(SlashForm)).value


---------------------------------------------------------------------------
\* the provider step of the run is done
ProvidersCleaned == HasCol(df, ColProvider \o FlagSuffix)

\* C27: whenever clean_provider returns a resolved flag the cleaned provider
\* is, as written, one of the keys of the index, so clean_title has at least
\* one contract for it.
C27_ResolvedProviderIsKey ==
    ProvidersCleaned =>
        \A r \in DOMAIN df.rows :
            Cell(df, r, ColProvider \o FlagSuffix) # Null =>
                \E i \in DOMAIN index :
                    /\ index[i].key = Cell(df, r, ColProvider \o CleanSuffix)
                    /\ index[i].val.items # <<>>

\* a provider written in another case, resolved to the registry's name
C27_Witness ==
    /\ ProvidersCleaned
    /\ \E r \in DOMAIN df.rows :
          /\ Cell(df, r, ColProvider) = S(<<"a","b"," ","c","o">>)
          /\ Cell(df, r, ColProvider \o FlagSuffix) = PyTrue
          /\ Cell(df, r, ColProvider \o CleanSuffix) = S(<<"A","b"," ","C","o">>)


---------------------------------------------------------------------------
\* the cleaned (provider, title, number) of row r is a contract of the index
TripleInIndex(r) ==
    \E i \in DOMAIN index : \E m \in DOMAIN index[i].val.items :
        /\ index[i].key = Cell(df, r, ColProvider \o CleanSuffix)
        /\ PyEq(index[i].val.items[m].contract_title,
                Cell(df, r, ColContractTitle \o CleanSuffix))
        /\ PyEq(index[i].val.items[m].contract_number,
                Cell(df, r, ColContractNumber \o CleanSuffix))

\* C28: for every record leaving etl_pipeline whose Provider, ContractTitle
\* and ContractNumber flags are all resolved, the cleaned title and number
\* belong to one contract of the cleaned provider: the cleaned triple is a
\* contract of the index.
C28_ResolvedTripleIsContract ==
    Finalized =>
        \A r \in DOMAIN df.rows : Null \notin RegistryFlags(r) => TripleInIndex(r)


---------------------------------------------------------------------------
\* record_issue has returned
IssuesRecorded == pc = "returned" /\ call.fn = "record_issue"

\* no item of a list occurs in it twice
NoRepeat(items) == \A i, j \in DOMAIN items : items[i] = items[j] => i = j

\* record_issue applied to the table it returned
RecordedAgain == record_issue(ret.value, ColFailedFields, ColModifiedFields)

\* C29: record_issue is idempotent: applied again to a table it has already
\* processed, the flags unchanged, it leaves both lists of every record
\* unchanged, and no field name occurs more than once in either list.
C29_RecordIssueIdempotent ==
    IssuesRecorded =>
        /\ RecordedAgain = ret.value
        /\ \A r \in DOMAIN RecordedAgain.rows :
               /\ NoRepeat(FailedOf(RecordedAgain, r))
               /\ NoRepeat(ModifiedOf(RecordedAgain, r))


---------------------------------------------------------------------------
(* Runs in a row against one master_cleaned_path: etl.py run again on a     *)
(* later transaction file, the master file being whatever is at the path    *)

MaxRuns == 2

\* the header row to_csv writes for the cleaned subset
MasterHeader ==
    <<ColInvoiceID, ColFailedFields, ColModifiedFields>>
    \o [k \in DOMAIN FieldNames |-> FieldNames[k] \o CleanSuffix]

\* the one line an earlier run left in the master file
EarlierLine ==
    <<<<"I","N","V","0">>, <<"[","]">>, <<"[","]">>, <<"A","b"," ","C","o">>,
      <<"5","0",".","0">>, <<"2","0","2","5","-","0","1","-","0","1">>,
      <<"T","1">>, <<"1","1">>>>

\* what is at master_cleaned_path before the first run, with the runs that
\* produced it: nothing, an empty file, or the file of one earlier run
Starts ==
    {[file |-> NoFile, runs |-> <<>>],
     [file |-> File(<<>>), runs |-> <<>>],
     [file |-> File(<<MasterHeader, EarlierLine>>), runs |-> <<<<EarlierLine>>>>]}

\* the transaction files of the runs
RunFiles == {File(b) : b \in [1..2 -> FollowRows]} \cup {File(<<r>>) : r \in FollowRows}

InitRuns ==
    /\ pc = "load"
    /\ registry \in {File(RegOne), File(RegTwo)}
    /\ csv \in RunFiles
    /\ index = <<>>
    /\ df = EmptyFrame
    /\ cleaned_subset = EmptyFrame
    /\ \E s \in Starts : master = s.file /\ runs = s.runs
    /\ scored = NoRisk
    /\ exc = ""
    /\ call = NoCall
    /\ ret = NoRet

\* etl.py is run again, on the transaction file that is now the latest
NextRun ==
    /\ pc \in {"cleaned", "scored"}
    /\ Len(runs) < MaxRuns
    /\ csv' \in RunFiles
    /\ pc' = "load"
    /\ index' = <<>>
    /\ df' = EmptyFrame
    /\ cleaned_subset' = EmptyFrame
    /\ scored' = NoRisk
    /\ UNCHANGED <<registry, master, exc, call, ret, runs>>

NextRuns ==
    \/ LoadData
    \/ CleanProviders
    \/ CleanAmounts
    \/ CleanDates
    \/ CleanTitles
    \/ CleanNumbers
    \/ TrackIssues
    \/ AppendCleaned
    \/ AddRiskScores
    \/ NextRun

SpecRuns == InitRuns /\ [][NextRuns]_vars

RECURSIVE Flatten(_)
\* the lines of several runs, one run after the other
Flatten(lists) ==
    IF lists = <<>> THEN <<>> ELSE Head(lists) \o Flatten(Tail(lists))

\* C30: after any sequence of one or more etl_pipeline runs against the same
\* master_cleaned_path, starting from no file or from any file already present
\* there, the master file is exactly one header row followed by the cleaned
\* rows of every run in run order; no run rewrites or removes earlier rows.
C30_MasterIsHeaderThenRuns ==
    Persisted =>
        /\ master.exists
        /\ master.content = <<MasterHeader>> \o Flatten(runs)
        /\ Cardinality({i \in DOMAIN master.content : master.content[i] = MasterHeader}) = 1

=============================================================================
